---- MODULE Spec2Model ----
(***************************************************************************)
(* Model of the AI-plan generation pipeline of                             *)
(* apps/welcome/backend/api/generate_pm_plan.py: the Plan Validator        *)
(* (_validate_plan_structure, _is_number) and the endpoint                 *)
(* generate_ai_plan that parses the generation collaborator's text,        *)
(* validates it and builds the response.                                   *)
(*                                                                         *)
(* JSON values are records tagged by their Python type after json.loads:   *)
(*   [t |-> "null"], [t |-> "bool", b], [t |-> "int", fits],               *)
(*   [t |-> "float"], [t |-> "str", s], [t |-> "list", items],             *)
(*   [t |-> "dict", m]                                                     *)
(* A str carries its characters as a tuple of one-character strings; an    *)
(* int carries whether its magnitude fits a C double; a dict carries a     *)
(* function from its keys to its values.                                   *)
(***************************************************************************)
EXTENDS Integers, Sequences, FiniteSets, TLC

VARIABLES
    plan_json,   \* the candidate handed to _validate_plan_structure
    v_pc,        \* position of the validator: idle, call, loop, returned, raised
    idx,         \* loop index of `for idx, task in enumerate(tasks)`
    errors,      \* the validator's local list `errors`
    v_exc,       \* the exception the validator raised, if any
    pc,          \* position of generate_ai_plan
    input,       \* the PMPlanInput the endpoint received
    lookups,     \* the storage lookups made so far, with their answers
    calculated_hours,  \* the local of that name
    prompt,      \* the rendered placeholders of generate_prompt's text
    gen,         \* what model.generate_content / response.text did
    ai_output,   \* the local of that name: the text handed to json.loads
    caught,      \* the exception bound by `except Exception as e`
    est_caught,  \* the exception bound by the calculation's `except Exception as e`
    gen_calls,   \* how many times model.generate_content was called
    modified_input,  \* the local of that name: the PMPlanInput handed to generate_prompt
    s_pc,        \* position of suggest_child_assets
    input_data,  \* the ChildSuggestInput it received
    s_response,  \* what its model.generate_content / response.text did
    raw_content, \* its local of that name: the text handed to json.loads
    s_result,    \* what its caller receives
    a_pc,        \* position of create_site_admin
    a_request,   \* the SiteAdminRequest it received
    current_user_id,  \* its argument of that name
    a_calls,     \* the calls it made on the Supabase client, with their outcomes
    a_result,    \* what its caller receives
    i_pc,        \* position of send_invitation_email
    i_request,   \* the InvitationRequest it received
    site_response,  \* what its site lookup did
    i_mail,      \* the recipient name and the subject it composed
    i_caught,    \* the exception bound by its `except Exception as e`
    i_result,    \* what its caller receives
    suspended,   \* the locals of a second invocation of generate_ai_plan that is not running
    response     \* what the caller receives

vvars == <<plan_json, v_pc, idx, errors, v_exc>>
svars == <<s_pc, input_data, s_response, raw_content, s_result>>
avars == <<a_pc, a_request, current_user_id, a_calls, a_result>>
ivars == <<i_pc, i_request, site_response, i_mail, i_caught, i_result>>
pvars == <<pc, input, lookups, calculated_hours, prompt, gen, ai_output, caught, response,
           est_caught, gen_calls, modified_input>>
hvars == <<pvars, svars, avars, ivars, suspended>>
vars == <<vvars, hvars>>

\* No second invocation of generate_ai_plan
NoFrame == [pc |-> "none"]

(***************************************************************************)
(* Bounds of the model.                                                    *)
(***************************************************************************)
MaxTasks == 2
MaxMissing == 3
MaxRatingLen == 4

(***************************************************************************)
(* JSON values.                                                            *)
(***************************************************************************)
JNull == [t |-> "null"]
JBool(b) == [t |-> "bool", b |-> b]
JInt(fits) == [t |-> "int", fits |-> fits]
JFloat == [t |-> "float"]
JStr(s) == [t |-> "str", s |-> s]
JList(items) == [t |-> "list", items |-> items]
JDict(m) == [t |-> "dict", m |-> m]

EmptyMap == [k \in {} |-> JNull]

\* isinstance(v, dict), isinstance(v, list), isinstance(v, str), isinstance(v, bool)
IsDict(v) == v.t = "dict"
IsList(v) == v.t = "list"
IsStr(v) == v.t = "str"
IsBool(v) == v.t = "bool"

\* `key in task`
HasKey(v, key) == key \in DOMAIN v.m

(***************************************************************************)
(* Python str operations used by the validator, on tuples of characters.   *)
(***************************************************************************)
LowerLetters == <<"a","b","c","d","e","f","g","h","i","j","k","l","m",
                  "n","o","p","q","r","s","t","u","v","w","x","y","z">>
UpperLetters == <<"A","B","C","D","E","F","G","H","I","J","K","L","M",
                  "N","O","P","Q","R","S","T","U","V","W","X","Y","Z">>
Whitespace == {" ", "\n", "\t"}
Digits == {"0","1","2","3","4","5","6","7","8","9"}
Signs == {"+", "-"}

IndexOf(seq, c) ==
    IF \E i \in 1..Len(seq) : seq[i] = c
    THEN CHOOSE i \in 1..Len(seq) : seq[i] = c
    ELSE 0

\* c.lower(), c.upper() and "c is a cased character"
lower(c) == IF IndexOf(UpperLetters, c) > 0 THEN LowerLetters[IndexOf(UpperLetters, c)] ELSE c
upper(c) == IF IndexOf(LowerLetters, c) > 0 THEN UpperLetters[IndexOf(LowerLetters, c)] ELSE c
is_cased(c) == IndexOf(LowerLetters, c) > 0 \/ IndexOf(UpperLetters, c) > 0

RECURSIVE lstrip(_)
lstrip(s) == IF Len(s) > 0 /\ s[1] \in Whitespace THEN lstrip(Tail(s)) ELSE s

RECURSIVE rstrip(_)
rstrip(s) ==
    IF Len(s) > 0 /\ s[Len(s)] \in Whitespace THEN rstrip(SubSeq(s, 1, Len(s) - 1)) ELSE s

\* str.strip(): surrounding whitespace removed
strip(s) == rstrip(lstrip(s))

\* str.title(): a character that follows a cased character is lowercased,
\* any other character is uppercased (titlecased)
title(s) ==
    [i \in 1..Len(s) |-> IF i > 1 /\ is_cased(s[i - 1]) THEN lower(s[i]) ELSE upper(s[i])]

\* str.lower()
lower_str(s) == [i \in 1..Len(s) |-> lower(s[i])]

(***************************************************************************)
(* float(str): the text, stripped of surrounding whitespace, must be a     *)
(* decimal floating-point literal (digits may be grouped by single         *)
(* underscores) or, after an optional sign, inf / infinity / nan in any    *)
(* letter case.  Anything else raises ValueError.                          *)
(***************************************************************************)
FloatStep(st, c) ==
    CASE st = "start"   -> IF c \in Signs THEN "sign"
                           ELSE IF c \in Digits THEN "int"
                           ELSE IF c = "." THEN "dot" ELSE "bad"
      [] st = "sign"    -> IF c \in Digits THEN "int"
                           ELSE IF c = "." THEN "dot" ELSE "bad"
      [] st = "int"     -> IF c \in Digits THEN "int"
                           ELSE IF c = "_" THEN "int_"
                           ELSE IF c = "." THEN "frac0"
                           ELSE IF lower(c) = "e" THEN "exp" ELSE "bad"
      [] st = "int_"    -> IF c \in Digits THEN "int" ELSE "bad"
      [] st = "dot"     -> IF c \in Digits THEN "frac" ELSE "bad"
      [] st = "frac0"   -> IF c \in Digits THEN "frac"
                           ELSE IF lower(c) = "e" THEN "exp" ELSE "bad"
      [] st = "frac"    -> IF c \in Digits THEN "frac"
                           ELSE IF c = "_" THEN "frac_"
                           ELSE IF lower(c) = "e" THEN "exp" ELSE "bad"
      [] st = "frac_"   -> IF c \in Digits THEN "frac" ELSE "bad"
      [] st = "exp"     -> IF c \in Signs THEN "expsign"
                           ELSE IF c \in Digits THEN "expd" ELSE "bad"
      [] st = "expsign" -> IF c \in Digits THEN "expd" ELSE "bad"
      [] st = "expd"    -> IF c \in Digits THEN "expd"
                           ELSE IF c = "_" THEN "expd_" ELSE "bad"
      [] st = "expd_"   -> IF c \in Digits THEN "expd" ELSE "bad"
      [] OTHER          -> "bad"

RECURSIVE FloatRun(_, _)
FloatRun(s, st) == IF Len(s) = 0 THEN st ELSE FloatRun(Tail(s), FloatStep(st, s[1]))

FloatWords == {<<"i","n","f">>, <<"i","n","f","i","n","i","t","y">>, <<"n","a","n">>}

unsigned(s) == IF Len(s) > 0 /\ s[1] \in Signs THEN Tail(s) ELSE s

\* TRUE iff float(s) returns for the str s (FALSE: it raises ValueError)
float_str_ok(s) ==
    \/ FloatRun(strip(s), "start") \in {"int", "frac0", "frac", "expd"}
    \/ \E w \in FloatWords : lower_str(unsigned(strip(s))) = w

(***************************************************************************)
(* Validation utilities.                                                   *)
(***************************************************************************)
\* _is_number(value): "True", "False" (float raised TypeError or ValueError,
\* which are caught) or "OverflowError" (float of an int too large for a
\* double raises OverflowError, which is not caught and escapes)
_is_number(value) ==
    CASE value.t = "int"              -> IF value.fits THEN "True" ELSE "OverflowError"
      [] value.t \in {"float", "bool"} -> "True"
      [] value.t = "str"              -> IF float_str_ok(value.s) THEN "True" ELSE "False"
      [] OTHER                        -> "False"

required_keys ==
    << "parent_asset", "child_asset", "task_name", "maintenance_interval", "instructions",
       "reason", "engineering_rationale", "safety_precautions", "common_failures_prevented",
       "usage_insights", "tools_needed", "number_of_technicians", "estimated_time_minutes",
       "consumables", "risk_assessment", "criticality_rating", "comments", "assumptions",
       "citations", "inherits_parent_context", "context_overrides" >>

RequiredKeySet == {required_keys[k] : k \in 1..Len(required_keys)}

\* One entry of `errors`: the text f"{path}.{key} {msg}" with
\* path = f"maintenance_plan[{idx}]" (key "" for the entry about the task itself)
Entry(i, key, msg) == [idx |-> i, key |-> key, msg |-> msg]

\* for key in required_keys: if key not in task: errors.append(... is missing)
RECURSIVE MissingFrom(_, _, _)
MissingFrom(task, i, k) ==
    IF k > Len(required_keys) THEN <<>>
    ELSE (IF HasKey(task, required_keys[k]) THEN <<>>
          ELSE <<Entry(i, required_keys[k], "is missing")>>)
         \o MissingFrom(task, i, k + 1)

\* Mutant: the numeric check without its `key in task` guard
NumericErrors_NoPresenceGuard(task, i, key, msg) ==
    IF ~HasKey(task, key) \/ _is_number(task.m[key]) = "False"
    THEN <<Entry(i, key, msg)>> ELSE <<>>

NumericErrors(task, i, key, msg) ==
    IF HasKey(task, key) /\ _is_number(task.m[key]) = "False"
    THEN <<Entry(i, key, msg)>> ELSE <<>>

\* Mutant: the rating compared without strip()
criticality_ok_NoStrip(val) ==
    IsStr(val) /\ title(val.s) \in { <<"H","i","g","h">>,
                                     <<"M","e","d","i","u","m">>,
                                     <<"L","o","w">> }

\* val.strip().title() in {"High", "Medium", "Low"} for a str val
criticality_ok(val) ==
    IsStr(val) /\ title(strip(val.s)) \in { <<"H","i","g","h">>,
                                            <<"M","e","d","i","u","m">>,
                                            <<"L","o","w">> }

CriticalityErrors(task, i) ==
    IF HasKey(task, "criticality_rating") /\ ~criticality_ok(task.m["criticality_rating"])
    THEN <<Entry(i, "criticality_rating", "must be one of High, Medium, Low")>> ELSE <<>>

\* Mutant: the context_overrides check left out
TypeErrors_NoOverrideCheck(task, i) ==
    IF HasKey(task, "inherits_parent_context") /\ ~IsBool(task.m["inherits_parent_context"])
    THEN <<Entry(i, "inherits_parent_context", "must be boolean")>> ELSE <<>>

TypeErrors(task, i) ==
    (IF HasKey(task, "inherits_parent_context") /\ ~IsBool(task.m["inherits_parent_context"])
     THEN <<Entry(i, "inherits_parent_context", "must be boolean")>> ELSE <<>>)
    \o
    (IF HasKey(task, "context_overrides") /\ ~IsDict(task.m["context_overrides"])
     THEN <<Entry(i, "context_overrides", "must be an object (dict)")>> ELSE <<>>)

\* Mutant: scheduled_dates rejected only when its value is truthy
DeprecatedErrors_Truthy(task, i) ==
    IF HasKey(task, "scheduled_dates")
       /\ ~(task.m["scheduled_dates"].t = "null")
       /\ ~(task.m["scheduled_dates"].t = "list" /\ Len(task.m["scheduled_dates"].items) = 0)
    THEN <<Entry(i, "scheduled_dates",
                 "must NOT be included; use maintenance_interval in weeks instead")>>
    ELSE <<>>

DeprecatedErrors(task, i) ==
    IF HasKey(task, "scheduled_dates")
    THEN <<Entry(i, "scheduled_dates",
                 "must NOT be included; use maintenance_interval in weeks instead")>>
    ELSE <<>>

\* The body of the loop for one task: the entries it appends to `errors`
TaskErrors(task, i) ==
    IF ~IsDict(task) THEN <<Entry(i, "", "is not an object")>>
    ELSE MissingFrom(task, i, 1)
         \o NumericErrors(task, i, "maintenance_interval", "must be numeric (weeks)")
         \o NumericErrors(task, i, "estimated_time_minutes", "must be numeric (minutes)")
         \o CriticalityErrors(task, i)
         \o TypeErrors(task, i)
         \o DeprecatedErrors(task, i)

\* The body of the loop for one task ends in an exception _is_number let escape
TaskRaises(task) ==
    /\ IsDict(task)
    /\ \E key \in {"maintenance_interval", "estimated_time_minutes"} :
          HasKey(task, key) /\ _is_number(task.m[key]) = "OverflowError"

NoExc == [type |-> "none"]
HTTPException(status, detail) == [type |-> "HTTPException", status |-> status, detail |-> detail]
Message(text) == [kind |-> "message", text |-> text]
ValidationErrors(errs) == [kind |-> "validation_errors", errors |-> errs]
OverflowError == [type |-> "OverflowError"]

\* tasks = plan_json.get("maintenance_plan")
tasks == plan_json.m["maintenance_plan"]

(***************************************************************************)
(* _validate_plan_structure, one action per step: the structural gate,     *)
(* one loop iteration, the final `if errors: raise`.                       *)
(***************************************************************************)
\* Mutant: the gate without its `len(tasks) == 0` test
ValidateEnter_AllowsEmpty ==
    /\ v_pc = "call"
    /\ IF ~IsDict(plan_json) \/ ~HasKey(plan_json, "maintenance_plan")
       THEN /\ v_pc' = "raised"
            /\ v_exc' = HTTPException(422,
                 Message("Output must be a JSON object with key 'maintenance_plan'."))
       ELSE IF ~IsList(tasks)
       THEN /\ v_pc' = "raised"
            /\ v_exc' = HTTPException(422,
                 Message("'maintenance_plan' must be a non-empty array of task objects."))
       ELSE /\ v_pc' = "loop"
            /\ v_exc' = v_exc
    /\ errors' = <<>>
    /\ idx' = 0
    /\ UNCHANGED <<plan_json, hvars>>

ValidateEnter ==
    /\ v_pc = "call"
    /\ IF ~IsDict(plan_json) \/ ~HasKey(plan_json, "maintenance_plan")
       THEN /\ v_pc' = "raised"
            /\ v_exc' = HTTPException(422,
                 Message("Output must be a JSON object with key 'maintenance_plan'."))
       ELSE IF ~IsList(tasks) \/ Len(tasks.items) = 0
       THEN /\ v_pc' = "raised"
            /\ v_exc' = HTTPException(422,
                 Message("'maintenance_plan' must be a non-empty array of task objects."))
       ELSE /\ v_pc' = "loop"
            /\ v_exc' = v_exc
    /\ errors' = <<>>
    /\ idx' = 0
    /\ UNCHANGED <<plan_json, hvars>>

\* Mutant: a loop body that repairs the task it reports on, dropping the
\* deprecated key
ValidateTask_Repairing ==
    /\ v_pc = "loop"
    /\ idx < Len(tasks.items)
    /\ IF TaskRaises(tasks.items[idx + 1])
       THEN /\ v_pc' = "raised"
            /\ v_exc' = OverflowError
            /\ UNCHANGED <<idx, errors, plan_json>>
       ELSE /\ errors' = errors \o TaskErrors(tasks.items[idx + 1], idx)
            /\ idx' = idx + 1
            /\ plan_json' =
                 IF IsDict(tasks.items[idx + 1])
                 THEN [plan_json EXCEPT !.m["maintenance_plan"].items[idx + 1] =
                          JDict([k \in (DOMAIN @.m) \ {"scheduled_dates"} |-> @.m[k]])]
                 ELSE plan_json
            /\ UNCHANGED <<v_pc, v_exc>>
    /\ UNCHANGED hvars

ValidateTask ==
    /\ v_pc = "loop"
    /\ idx < Len(tasks.items)
    /\ IF TaskRaises(tasks.items[idx + 1])
       THEN /\ v_pc' = "raised"
            /\ v_exc' = OverflowError
            /\ UNCHANGED <<idx, errors>>
       ELSE /\ errors' = errors \o TaskErrors(tasks.items[idx + 1], idx)
            /\ idx' = idx + 1
            /\ UNCHANGED <<v_pc, v_exc>>
    /\ UNCHANGED <<plan_json, hvars>>

ValidateExit ==
    /\ v_pc = "loop"
    /\ idx = Len(tasks.items)
    /\ IF Len(errors) > 0
       THEN /\ v_pc' = "raised"
            /\ v_exc' = HTTPException(422, ValidationErrors(errors))
       ELSE /\ v_pc' = "returned"
            /\ v_exc' = v_exc
    /\ UNCHANGED <<plan_json, idx, errors, hvars>>

(***************************************************************************)
(* The values json.loads can hand to the validator.  ValidTask is the      *)
(* few-shot example task of the prompt; the other tasks are ValidTask with *)
(* keys removed, values replaced or the deprecated key added.              *)
(***************************************************************************)
NA == <<"N","o","t"," ","a","p","p","l","i","c","a","b","l","e">>
ArrayKeys == {"instructions", "safety_precautions", "common_failures_prevented",
              "tools_needed", "consumables", "assumptions", "citations"}

ValidTask ==
    JDict([k \in RequiredKeySet |->
        CASE k \in {"maintenance_interval", "estimated_time_minutes",
                    "number_of_technicians"}  -> JInt(TRUE)
          [] k = "criticality_rating"         -> JStr(<<"M","e","d","i","u","m">>)
          [] k = "inherits_parent_context"    -> JBool(TRUE)
          [] k = "context_overrides"          -> JDict(EmptyMap)
          [] k \in ArrayKeys                  -> JList(<<JStr(NA)>>)
          [] OTHER                            -> JStr(NA)])

Without(task, keys) == JDict([k \in (DOMAIN task.m) \ keys |-> task.m[k]])
With(task, key, val) ==
    JDict([k \in (DOMAIN task.m) \cup {key} |-> IF k = key THEN val ELSE task.m[k]])

NumberSamples ==
    { JInt(TRUE), JInt(FALSE), JFloat, JBool(TRUE), JNull, JList(<<>>), JDict(EmptyMap),
      JStr(<<"4">>), JStr(<<"4",".","5">>), JStr(<<" ","1","2"," ">>), JStr(<<"1","e","3">>),
      JStr(<<"w","e","e","k","l","y">>), JStr(<<>>), JStr(<<"4"," ","w","k">>) }

CriticalitySamples ==
    { JStr(<<"H","i","g","h">>), JStr(<<"h","i","g","h">>), JStr(<<"H","I","G","H">>),
      JStr(<<" ","m","e","d","i","u","m"," ">>), JStr(<<"l","O","W","\n">>),
      JStr(<<"C","r","i","t","i","c","a","l">>), JStr(<<>>), JStr(<<"H","i"," ","g","h">>),
      JStr(<<"H","i","g","h","e","r">>), JStr(<<"L","o","w","1">>),
      JNull, JInt(TRUE), JBool(TRUE), JList(<<JStr(<<"H","i","g","h">>)>>) }

\* Every text of at most n characters over letters of Low in either case
\* and a blank
RatingAlphabet == {"l", "L", "o", "W", " "}
RECURSIVE RatingTexts(_)
RatingTexts(n) ==
    IF n = 0 THEN {<<>>}
    ELSE LET P == RatingTexts(n - 1)
         IN P \cup {Append(p, c) : p \in {q \in P : Len(q) = n - 1}, c \in RatingAlphabet}

InheritSamples == { JBool(TRUE), JBool(FALSE), JInt(TRUE), JStr(<<"t","r","u","e">>), JNull }

\* context_overrides: "object with allowed keys: site_location, environment,
\* operating_hours, criticality; empty if none"
AllowedOverrideKeys == {"site_location", "environment", "operating_hours", "criticality"}

OverrideSamples ==
    { JDict(EmptyMap), JDict([k \in {"environment"} |-> JStr(NA)]),
      JDict([k \in {"vendor"} |-> JStr(NA)]),
      JDict([k \in {"criticality", "shift_pattern"} |-> JStr(NA)]),
      JList(<<>>), JStr(NA), JNull }

ScheduledSamples == { JList(<<>>), JList(<<JStr(<<"2","0","2","5">>)>>), JNull, JStr(NA) }

NonObjectTasks == { JNull, JStr(NA), JList(<<ValidTask>>), JInt(TRUE) }

\* ValidTask with one thing changed
SingleEditTasks ==
    {ValidTask}
    \cup NonObjectTasks
    \cup {Without(ValidTask, {k}) : k \in RequiredKeySet}
    \cup {With(ValidTask, "maintenance_interval", v) : v \in NumberSamples}
    \cup {With(ValidTask, "estimated_time_minutes", v) : v \in NumberSamples}
    \cup {With(ValidTask, "criticality_rating", v) : v \in CriticalitySamples}
    \cup {With(ValidTask, "criticality_rating", JStr(text)) : text \in RatingTexts(2)}
    \cup {With(ValidTask, "inherits_parent_context", v) : v \in InheritSamples}
    \cup {With(ValidTask, "context_overrides", v) : v \in OverrideSamples}
    \cup {With(ValidTask, "scheduled_dates", v) : v \in ScheduledSamples}
    \cup {With(ValidTask, "notes", JStr(NA))}

\* ValidTask with at most n required keys removed
RECURSIVE KeySubsets(_)
KeySubsets(n) ==
    IF n = 0 THEN {{}}
    ELSE LET P == KeySubsets(n - 1) IN P \cup {p \cup {k} : p \in P, k \in RequiredKeySet}

MissingKeyTasks == {Without(ValidTask, keys) : keys \in KeySubsets(MaxMissing)}

\* Tasks with several checked values off at once
MixedTasks ==
    { With(With(With(With(With(ValidTask,
          "maintenance_interval", mi), "estimated_time_minutes", et),
          "criticality_rating", cr), "inherits_parent_context", ih),
          "context_overrides", co) :
        mi \in {JStr(<<"4">>), JStr(<<"w","e","e","k","l","y">>), JInt(FALSE)},
        et \in {JFloat, JNull},
        cr \in {JStr(<<"l","o","w">>), JStr(<<"C","r","i","t","i","c","a","l">>)},
        ih \in {JBool(FALSE), JInt(TRUE)},
        co \in {JDict(EmptyMap), JList(<<>>)} }

DeprecatedTasks ==
    {With(task, "scheduled_dates", JList(<<>>)) :
        task \in MixedTasks \cup {Without(ValidTask, {k}) : k \in RequiredKeySet}}

\* The tasks of the plans of more than one task
ListTasks ==
    { ValidTask,
      With(With(ValidTask, "maintenance_interval", JStr(<<"4",".","5">>)),
           "criticality_rating", JStr(<<"h","i","g","h">>)),
      Without(ValidTask, {"task_name"}),
      Without(With(ValidTask, "inherits_parent_context", JNull),
              {"citations", "maintenance_interval"}),
      With(ValidTask, "criticality_rating", JStr(<<"C","r","i","t","i","c","a","l">>)),
      With(ValidTask, "scheduled_dates", JList(<<>>)),
      With(ValidTask, "estimated_time_minutes", JInt(FALSE)),
      JStr(NA) }

RECURSIVE TaskLists(_)
TaskLists(n) ==
    IF n = 0 THEN {<<>>}
    ELSE LET P == TaskLists(n - 1)
         IN P \cup {Append(p, task) : p \in {q \in P : Len(q) = n - 1}, task \in ListTasks}

Plan(items) == JDict([k \in {"maintenance_plan"} |-> JList(items)])

\* Candidates that fail the structural gate
StructuralCandidates ==
    { JNull, JStr(NA), JInt(TRUE), JList(<<ValidTask>>), JDict(EmptyMap),
      JDict([k \in {"plan"} |-> JList(<<ValidTask>>)]),
      JDict([k \in {"maintenance_plan"} |-> JNull]),
      JDict([k \in {"maintenance_plan"} |-> JStr(NA)]),
      JDict([k \in {"maintenance_plan"} |-> ValidTask]),
      Plan(<<>>) }

Candidates ==
    StructuralCandidates
    \cup {Plan(<<task>>) :
            task \in SingleEditTasks \cup MissingKeyTasks \cup MixedTasks \cup DeprecatedTasks}
    \cup {Plan(items) : items \in TaskLists(MaxTasks) \ {<<>>}}
    \cup {With(Plan(<<ValidTask>>), "notes", JStr(NA))}
    \cup {Plan(<<With(ValidTask, "criticality_rating", JStr(text))>>) :
            text \in RatingTexts(MaxRatingLen)}

(***************************************************************************)
(* The endpoints that are not called.                                      *)
(***************************************************************************)
SuggestIdle ==
    /\ s_pc = "none"
    /\ input_data = JNull
    /\ s_response = JNull
    /\ raw_content = <<>>
    /\ s_result = [kind |-> "none"]

AdminIdle ==
    /\ a_pc = "none"
    /\ a_request = JNull
    /\ current_user_id = JNull
    /\ a_calls = <<>>
    /\ a_result = [kind |-> "none"]

InvitationIdle ==
    /\ i_pc = "none"
    /\ i_request = JNull
    /\ site_response = JNull
    /\ i_mail = JNull
    /\ i_caught = NoExc
    /\ i_result = [kind |-> "none"]

(***************************************************************************)
(* The validator called on any candidate.                                  *)
(***************************************************************************)
InitValidator ==
    /\ plan_json \in Candidates
    /\ v_pc = "call"
    /\ idx = 0
    /\ errors = <<>>
    /\ v_exc = NoExc
    /\ pc = "none"
    /\ input = JNull
    /\ lookups = <<>>
    /\ calculated_hours = JNull
    /\ prompt = JNull
    /\ gen = JNull
    /\ ai_output = <<>>
    /\ caught = NoExc
    /\ response = [kind |-> "none"]
    /\ est_caught = NoExc
    /\ gen_calls = 0
    /\ modified_input = JNull
    /\ SuggestIdle /\ AdminIdle /\ InvitationIdle
    /\ suspended = NoFrame

NextValidator == ValidateEnter \/ ValidateTask \/ ValidateExit

SpecValidator == InitValidator /\ [][NextValidator]_vars

(***************************************************************************)
(* generate_ai_plan.  Python values of the request and of the storage rows *)
(* are JSON values, plus [t |-> "num", n] for a number whose value matters *)
(* and [t |-> "date", days] for an ISO date text that parses to the date   *)
(* `days` days before today.                                               *)
(***************************************************************************)
Num(n) == [t |-> "num", n |-> n]
IsoDate(days) == [t |-> "date", days |-> days]

\* bool(v) as `if v`, `v if v else ...` use it
Truthy(v) ==
    CASE v.t = "null" -> FALSE
      [] v.t = "str"  -> Len(v.s) > 0
      [] v.t = "num"  -> v.n # 0
      [] v.t = "bool" -> v.b
      [] OTHER        -> TRUE

\* Mutant: the default only for None
OrElse_NoneOnly(v, default) == IF v.t = "null" THEN default ELSE v
OrElse(v, default) == IF Truthy(v) THEN v ELSE default

\* today = datetime.utcnow().date().isoformat(): the text of one date
today == JStr(<<"2","0","2","5","-","0","6","-","0","1">>)

\* generate_prompt: the values rendered in the placeholders of the text
generate_prompt(data) ==
    [ parent_asset  |-> OrElse(data.parent_asset, JStr(NA)),
      child_asset   |-> OrElse(data.child_asset, JStr(NA)),
      site_location |-> OrElse(data.site_location, JStr(NA)),
      environment   |-> OrElse(data.environment, JStr(NA)),
      hours         |-> OrElse(data.hours, JStr(NA)),
      frequency     |-> OrElse(data.frequency, JStr(NA)),
      criticality   |-> OrElse(data.criticality, JStr(<<"M","e","d","i","u","m">>)),
      addl          |-> OrElse(data.additional_context, JStr(NA)),
      today         |-> today ]

\* str(n) for an int n >= 0
DigitChars == <<"0","1","2","3","4","5","6","7","8","9">>
RECURSIVE str_int(_)
str_int(n) ==
    IF n < 10 THEN <<DigitChars[n + 1]>>
    ELSE Append(str_int(n \div 10), DigitChars[(n % 10) + 1])

(***************************************************************************)
(* The double-precision arithmetic of                                      *)
(*   weeks_since_install = (current_date - install_date).days / 7          *)
(*   int(weeks_since_install * hours_run_per_week)                         *)
(* on numbers written as sequences of binary digits, most significant      *)
(* first.  A double is a record [m, f]: the number the digits m spell,     *)
(* divided by 2^f.                                                         *)
(***************************************************************************)
MantissaBits == 53

LimbBits == 18

\* The low `width` binary digits of an int n >= 0
FixedBits(n, width) == [k \in 1..width |-> (n \div 2^(width - k)) % 2]

\* The binary digits of an int 0 <= n < 2^30, from its first 1 on
Bits(n) ==
    FixedBits(n, CHOOSE w \in 0..30 : n < 2^w /\ (w = 0 \/ n >= 2^(w - 1)))

\* The int that the digits b spell
RECURSIVE BitsValue(_)
BitsValue(b) ==
    IF Len(b) = 0 THEN 0
    ELSE IF Len(b) = 1 THEN b[1]
    ELSE LET half == Len(b) \div 2
         IN BitsValue(SubSeq(b, 1, half)) * 2^(Len(b) - half)
            + BitsValue(SubSeq(b, half + 1, Len(b)))

\* The digits of b + 1
Increment(b) ==
    LET zeros == {k \in 1..Len(b) : b[k] = 0}
    IN IF zeros = {} THEN <<1>> \o [k \in 1..Len(b) |-> 0]
       ELSE LET last == CHOOSE k \in zeros : \A j \in zeros : j <= k
            IN [k \in 1..Len(b) |-> IF k < last THEN b[k] ELSE IF k = last THEN 1 ELSE 0]

\* Round to nearest, ties to even, to MantissaBits digits; `sticky` tells that
\* the digits cut off after those of x.m are not all zero
Round(x, sticky) ==
    IF Len(x.m) <= MantissaBits THEN x
    ELSE LET keep == SubSeq(x.m, 1, MantissaBits)
             rest == SubSeq(x.m, MantissaBits + 1, Len(x.m))
             more == sticky \/ \E k \in 2..Len(rest) : rest[k] = 1
             up   == rest[1] = 1 /\ (more \/ keep[MantissaBits] = 1)
             sum  == IF up THEN Increment(keep) ELSE keep
         IN IF Len(sum) > MantissaBits
            THEN [m |-> SubSeq(sum, 1, MantissaBits), f |-> x.f - Len(rest) - 1]
            ELSE [m |-> sum, f |-> x.f - Len(rest)]

\* What is left of n after k steps of the long division by 7 past the point:
\* (n * 2^k) % 7, and 2^k % 7 is 1, 2, 4, 1, 2, 4, ...
Remainder7(n, k) == ((n % 7) * <<1, 2, 4>>[(k % 3) + 1]) % 7

\* The k-th binary digit of n / 7 after the point
FractionBit7(n, k) == IF 2 * Remainder7(n, k - 1) >= 7 THEN 1 ELSE 0

\* n / 7 for an int n > 0: the quotient's first MantissaBits + 1 digits,
\* rounded
weeks_since_install(n) ==
    LET whole == Bits(n \div 7)
        first == IF Len(whole) > 0 \/ n % 7 = 0 THEN 1
                 ELSE CHOOSE k \in 1..3 : /\ FractionBit7(n, k) = 1
                                          /\ \A j \in 1..(k - 1) : FractionBit7(n, j) = 0
        last  == first + MantissaBits - Len(whole)
    IN Round([m |-> whole \o [k \in 1..(last - first + 1) |-> FractionBit7(n, first + k - 1)],
              f |-> last],
             Remainder7(n, last) # 0)

\* The n-th of the three limbs of LimbBits digits each that hold the digits b
Limb(b, n) ==
    LET pad == 3 * LimbBits - Len(b)
    IN BitsValue([k \in 1..LimbBits |->
                    IF (n - 1) * LimbBits + k <= pad THEN 0
                    ELSE b[(n - 1) * LimbBits + k - pad]])

\* x * r for a double x >= 0 and an int 0 < r < 2^12: the limbs times r, low
\* limb first, each product carrying into the next, then rounded
Times(x, r) ==
    LET low  == Limb(x.m, 3) * r
        mid  == Limb(x.m, 2) * r + low \div 2^LimbBits
        high == Limb(x.m, 1) * r + mid \div 2^LimbBits
    IN Round([m |-> Bits(high) \o FixedBits(mid % 2^LimbBits, LimbBits)
                               \o FixedBits(low % 2^LimbBits, LimbBits),
              f |-> x.f], FALSE)

\* int(x) for a double 0 <= x < 2^30
Truncate(x) ==
    IF x.f >= Len(x.m) THEN 0 ELSE BitsValue(SubSeq(x.m, 1, Len(x.m) - x.f))

\* int(days / 7 * rate) for ints days and rate: the arithmetic is symmetric in
\* the signs, and int() truncates toward zero
int_weeks_times_rate(days, rate) ==
    IF days = 0 \/ rate = 0 THEN 0
    ELSE LET magnitude ==
               Truncate(Times(weeks_since_install(IF days < 0 THEN -days ELSE days),
                              IF rate < 0 THEN -rate ELSE rate))
         IN IF (days < 0) = (rate < 0) THEN magnitude ELSE -magnitude

Max(a, b) == IF a >= b THEN a ELSE b

\* total_hours = max(0, int(weeks_since_install * hours_run_per_week))
total_hours(days, rate) == Max(0, int_weeks_times_rate(days, rate))

\* What the storage collaborator can answer to .execute()
Raises == [k |-> "raise"]
Rows(rows) == [k |-> "rows", rows |-> rows]
ParentAnswers ==
    {Raises, Rows(<<>>)}
    \cup {Rows(<<[hours_run_per_week |-> rate]>>) :
            rate \in {JNull, Num(0), Num(40), Num(21), JStr(<<"4","0">>)}}
ChildAnswers ==
    {Raises, Rows(<<>>)}
    \cup {Rows(<<[plan_start_date |-> date]>>) :
            date \in {JNull, JStr(<<"s","o","o","n">>),
                      IsoDate(-7), IsoDate(0), IsoDate(10), IsoDate(17)}}

Lookup(table, answer) == [table |-> table, answer |-> answer]

\* What the calculation's `except Exception as e` binds
Raised(type, at) == [type |-> type, at |-> at]

\* Mutant: the child row is fetched before the parent's rate is looked at
EstimatorRun_ChildFetchedFirst(client, parent, child) ==
    IF client = "raise"
       THEN [lookups |-> <<>>, hours |-> JNull,
             exc |-> Raised("Exception", "get_supabase_client")]
    ELSE LET l1 == <<Lookup("parent_assets", parent)>> IN
    IF parent.k = "raise"
       THEN [lookups |-> l1, hours |-> JNull, exc |-> Raised("Exception", "parent_assets")]
    ELSE IF Len(parent.rows) = 0
       THEN [lookups |-> l1, hours |-> JNull, exc |-> NoExc]
    ELSE LET l2 == Append(l1, Lookup("child_assets", child)) IN
    IF child.k = "raise"
       THEN [lookups |-> l2, hours |-> JNull, exc |-> Raised("Exception", "child_assets")]
    ELSE IF ~Truthy(parent.rows[1].hours_run_per_week)
            \/ Len(child.rows) = 0 \/ ~Truthy(child.rows[1].plan_start_date)
       THEN [lookups |-> l2, hours |-> JNull, exc |-> NoExc]
    ELSE IF child.rows[1].plan_start_date.t # "date"
       THEN [lookups |-> l2, hours |-> JNull, exc |-> Raised("ValueError", "fromisoformat")]
    ELSE IF parent.rows[1].hours_run_per_week.t # "num"
       THEN [lookups |-> l2, hours |-> JNull,
             exc |-> Raised("TypeError", "weeks_since_install * hours_run_per_week")]
    ELSE [lookups |-> l2,
          hours |-> JStr(str_int(total_hours(child.rows[1].plan_start_date.days,
                                             parent.rows[1].hours_run_per_week.n))),
          exc |-> NoExc]

\* The try block of the runtime-hours calculation: the lookups made, the value
\* assigned to calculated_hours (JNull: none assigned) and the exception that
\* left the block (NoExc: none)
EstimatorRun(client, parent, child) ==
    IF client = "raise"
       THEN [lookups |-> <<>>, hours |-> JNull,
             exc |-> Raised("Exception", "get_supabase_client")]
    ELSE LET l1 == <<Lookup("parent_assets", parent)>> IN
    IF parent.k = "raise"
       THEN [lookups |-> l1, hours |-> JNull, exc |-> Raised("Exception", "parent_assets")]
    ELSE IF Len(parent.rows) = 0 \/ ~Truthy(parent.rows[1].hours_run_per_week)
       THEN [lookups |-> l1, hours |-> JNull, exc |-> NoExc]
    ELSE LET l2 == Append(l1, Lookup("child_assets", child)) IN
    IF child.k = "raise"
       THEN [lookups |-> l2, hours |-> JNull, exc |-> Raised("Exception", "child_assets")]
    ELSE IF Len(child.rows) = 0 \/ ~Truthy(child.rows[1].plan_start_date)
       THEN [lookups |-> l2, hours |-> JNull, exc |-> NoExc]
    ELSE IF child.rows[1].plan_start_date.t # "date"
       THEN [lookups |-> l2, hours |-> JNull, exc |-> Raised("ValueError", "fromisoformat")]
    ELSE IF parent.rows[1].hours_run_per_week.t # "num"
       THEN [lookups |-> l2, hours |-> JNull,
             exc |-> Raised("TypeError", "weeks_since_install * hours_run_per_week")]
    ELSE [lookups |-> l2,
          hours |-> JStr(str_int(total_hours(child.rows[1].plan_start_date.days,
                                             parent.rows[1].hours_run_per_week.n))),
          exc |-> NoExc]

\* The requests of the model
Request(hours, ids, optional) ==
    [ name |-> JStr(<<"P","u","m","p">>), model |-> JStr(<<"X","1">>),
      serial |-> JStr(<<"7">>), category |-> JStr(<<"p","u","m","p">>),
      hours |-> hours, frequency |-> JStr(<<"m","o","n","t","h","l","y">>),
      criticality |-> JStr(<<"H","i","g","h">>), additional_context |-> JStr(<<>>),
      parent_asset |-> optional, child_asset |-> optional,
      site_location |-> optional, environment |-> optional,
      parent_asset_id |-> ids[1], child_asset_id |-> ids[2] ]

Requests ==
    { Request(JStr(<<"1","0","0">>), <<JNull, JNull>>, JNull),
      Request(JStr(<<"1","0","0">>), <<JStr(<<"p","1">>), JStr(<<"c","1">>)>>, JStr(<<"A">>)),
      Request(JStr(<<>>), <<JStr(<<"p","1">>), JStr(<<>>)>>, JStr(<<>>)) }

\* Requests that differ in the hours and in the two asset ids
HoursSamples == {JStr(<<"1","0","0">>), JStr(<<>>)}
IdSamples == {JNull, JStr(<<>>), JStr(<<"p","1">>)}
EstimatorRequests ==
    {Request(hours, <<parent_id, child_id>>, JNull) :
        hours \in HoursSamples, parent_id \in IdSamples, child_id \in IdSamples}

\* Requests without asset ids that differ in the fields generate_prompt renders
OptionalSamples == {JNull, JStr(<<>>), JStr(<<"A">>)}
TextSamples == {JStr(<<>>), JStr(<<"A">>)}
RenderRequests ==
    {[Request(hours, <<JNull, JNull>>, JNull) EXCEPT
         !.parent_asset = pa, !.child_asset = ca, !.site_location = sl,
         !.environment = en, !.frequency = fr, !.criticality = cr,
         !.additional_context = ad] :
        hours \in HoursSamples,
        pa \in OptionalSamples, ca \in OptionalSamples,
        sl \in OptionalSamples, en \in OptionalSamples,
        fr \in TextSamples, cr \in TextSamples, ad \in TextSamples}

(***************************************************************************)
(* The text of the generation collaborator, as a sequence of tokens: a     *)
(* code fence with or without the word json, whitespace, prose, or the     *)
(* text of one JSON value.                                                 *)
(***************************************************************************)
FenceJson == [k |-> "fence_json"]   \* three backticks and the word json
Fence == [k |-> "fence"]            \* three backticks
Space == [k |-> "whitespace"]
Prose == [k |-> "prose"]
JsonText(v) == [k |-> "json", v |-> v]

\* text.replace(tok, "")
replace(text, tok) == SelectSeq(text, LAMBDA x : x.k # tok.k)

RECURSIVE lstrip_text(_)
lstrip_text(text) ==
    IF Len(text) > 0 /\ text[1].k = "whitespace" THEN lstrip_text(Tail(text)) ELSE text
RECURSIVE rstrip_text(_)
rstrip_text(text) ==
    IF Len(text) > 0 /\ text[Len(text)].k = "whitespace"
    THEN rstrip_text(SubSeq(text, 1, Len(text) - 1)) ELSE text
strip_text(text) == rstrip_text(lstrip_text(text))

\* (response.text or "").replace(FenceJson, "").replace(Fence, "").strip()
clean_output(text) ==
    strip_text(replace(replace(IF text.t = "null" THEN <<>> ELSE text.toks, FenceJson), Fence))

\* json.loads(text) returns (and does not raise JSONDecodeError)
json_parses(text) == Len(text) = 1 /\ text[1].k = "json"
json_loads(text) == text[1].v

Text(toks) == [t |-> "text", toks |-> toks]

HandlerCandidates ==
    StructuralCandidates
    \cup {Plan(<<task>>) : task \in SingleEditTasks}
    \cup {Plan(items) : items \in TaskLists(MaxTasks) \ {<<>>}}

WrappedCandidates ==
    { Plan(<<ValidTask>>), Plan(<<ValidTask, ValidTask>>), Plan(<<>>), JNull,
      Plan(<<Without(ValidTask, {"task_name"})>>) }

GenOutcomes ==
    { [k |-> "raise", at |-> "generate_content"], [k |-> "raise", at |-> "response.text"],
      [k |-> "ok", text |-> JNull], [k |-> "ok", text |-> Text(<<>>)],
      [k |-> "ok", text |-> Text(<<Prose>>)] }
    \cup {[k |-> "ok", text |-> Text(<<JsonText(v)>>)] : v \in HandlerCandidates}
    \cup {[k |-> "ok", text |-> Text(toks)] :
            toks \in UNION {{ <<FenceJson, Space, JsonText(v), Space, Fence>>,
                              <<Fence, JsonText(v), Fence>>,
                              <<Space, JsonText(v), Space>>,
                              <<Prose, Space, JsonText(v)>>,
                              <<JsonText(v), Space, JsonText(v)>> } : v \in WrappedCandidates}}

Response500 == [kind |-> "error", exc |-> HTTPException(500, Message("Gemini API error."))]
\* Mutant: the tasks read under another key, with the default []
SuccessBody_WrongKey(plan) ==
    [success |-> TRUE, data |-> IF HasKey(plan, "tasks") THEN plan.m["tasks"].items ELSE <<>>]
\* maintenance_tasks = plan_json.get("maintenance_plan", [])
SuccessBody(plan) ==
    [success |-> TRUE,
     data |-> IF HasKey(plan, "maintenance_plan") THEN plan.m["maintenance_plan"].items
              ELSE <<>>]

\* Mutant: the calculation runs when either id is given
Estimate_EitherId ==
    /\ pc = "start"
    /\ IF Truthy(input.parent_asset_id) \/ Truthy(input.child_asset_id)
       THEN \E client \in {"ok", "raise"}, parent \in ParentAnswers, child \in ChildAnswers :
              LET run == EstimatorRun(client, parent, child)
              IN /\ lookups' = run.lookups
                 /\ calculated_hours' = IF run.hours.t = "null" THEN input.hours ELSE run.hours
                 /\ est_caught' = run.exc
       ELSE /\ lookups' = <<>>
            /\ calculated_hours' = input.hours
            /\ UNCHANGED est_caught
    /\ pc' = "prompt"
    /\ UNCHANGED <<vvars, svars, avars, ivars, suspended, input, modified_input, prompt, gen, ai_output, caught, response, gen_calls>>

\* Mutant: an exception of the calculation leaves generate_ai_plan
Estimate_Propagating ==
    /\ pc = "start"
    /\ IF Truthy(input.parent_asset_id) /\ Truthy(input.child_asset_id)
       THEN \E client \in {"ok", "raise"}, parent \in ParentAnswers, child \in ChildAnswers :
              LET run == EstimatorRun(client, parent, child)
              IN /\ lookups' = run.lookups
                 /\ calculated_hours' = IF run.hours.t = "null" THEN input.hours ELSE run.hours
                 /\ est_caught' = run.exc
                 /\ pc' = IF run.exc = NoExc THEN "prompt" ELSE "done"
                 /\ response' = IF run.exc = NoExc THEN response ELSE Response500
       ELSE /\ lookups' = <<>>
            /\ calculated_hours' = input.hours
            /\ pc' = "prompt"
            /\ UNCHANGED <<est_caught, response>>
    /\ UNCHANGED <<vvars, svars, avars, ivars, suspended, input, modified_input, prompt, gen, ai_output, caught, gen_calls>>

\* The runtime-hours calculation (best effort)
Estimate ==
    /\ pc = "start"
    /\ IF Truthy(input.parent_asset_id) /\ Truthy(input.child_asset_id)
       THEN \E client \in {"ok", "raise"}, parent \in ParentAnswers, child \in ChildAnswers :
              LET run == EstimatorRun(client, parent, child)
              IN /\ lookups' = run.lookups
                 /\ calculated_hours' = IF run.hours.t = "null" THEN input.hours ELSE run.hours
                 /\ est_caught' = run.exc
       ELSE /\ lookups' = <<>>
            /\ calculated_hours' = input.hours
            /\ UNCHANGED est_caught
    /\ pc' = "prompt"
    /\ UNCHANGED <<vvars, svars, avars, ivars, suspended, input, modified_input, prompt, gen, ai_output, caught, response, gen_calls>>

\* Mutant: the two asset ids are left at their default None
PMPlanInput_WithoutIds(data, hours) ==
    [ name |-> data.name, model |-> data.model, serial |-> data.serial,
      category |-> data.category, hours |-> hours, frequency |-> data.frequency,
      criticality |-> data.criticality, additional_context |-> data.additional_context,
      parent_asset |-> data.parent_asset, child_asset |-> data.child_asset,
      site_location |-> data.site_location, environment |-> data.environment,
      parent_asset_id |-> JNull, child_asset_id |-> JNull ]

\* PMPlanInput(name=input.name, ..., hours=calculated_hours, ...): a new
\* request, field by field
PMPlanInput(data, hours) ==
    [ name |-> data.name, model |-> data.model, serial |-> data.serial,
      category |-> data.category, hours |-> hours, frequency |-> data.frequency,
      criticality |-> data.criticality, additional_context |-> data.additional_context,
      parent_asset |-> data.parent_asset, child_asset |-> data.child_asset,
      site_location |-> data.site_location, environment |-> data.environment,
      parent_asset_id |-> data.parent_asset_id, child_asset_id |-> data.child_asset_id ]

\* modified_input = PMPlanInput(..., hours=calculated_hours, ...); generate_prompt
CompilePrompt ==
    /\ pc = "prompt"
    /\ modified_input' = PMPlanInput(input, calculated_hours)
    /\ prompt' = generate_prompt(modified_input')
    /\ pc' = "generate"
    /\ UNCHANGED <<vvars, svars, avars, ivars, suspended, input, lookups, calculated_hours, gen, ai_output, caught, response,
                   est_caught, gen_calls>>

\* Mutant: a call that raised is made once more
Generate_Retrying ==
    /\ pc = "generate"
    /\ gen_calls' = gen_calls + 1
    /\ \E outcome \in GenOutcomes :
        /\ gen' = outcome
        /\ IF outcome.k = "raise"
           THEN /\ pc' = IF gen_calls = 0 THEN "generate" ELSE "except"
                /\ caught' = [type |-> "Exception", at |-> outcome.at]
                /\ UNCHANGED ai_output
           ELSE /\ pc' = "parse"
                /\ ai_output' = clean_output(outcome.text)
                /\ UNCHANGED caught
    /\ UNCHANGED <<vvars, svars, avars, ivars, suspended, input, modified_input, lookups, calculated_hours, prompt, response, est_caught>>

\* response = model.generate_content(full_prompt); ai_output = ...
Generate ==
    /\ pc = "generate"
    /\ gen_calls' = gen_calls + 1
    /\ \E outcome \in GenOutcomes :
        /\ gen' = outcome
        /\ IF outcome.k = "raise"
           THEN /\ pc' = "except"
                /\ caught' = [type |-> "Exception", at |-> outcome.at]
                /\ UNCHANGED ai_output
           ELSE /\ pc' = "parse"
                /\ ai_output' = clean_output(outcome.text)
                /\ UNCHANGED caught
    /\ UNCHANGED <<vvars, svars, avars, ivars, suspended, input, modified_input, lookups, calculated_hours, prompt, response, est_caught>>

\* Mutant: the parsed value is taken as validated
Parse_SkippingValidator ==
    /\ pc = "parse"
    /\ IF json_parses(ai_output)
       THEN /\ plan_json' = json_loads(ai_output)
            /\ v_pc' = "returned"
            /\ pc' = "validate"
            /\ UNCHANGED caught
       ELSE /\ pc' = "except"
            /\ caught' = HTTPException(422, Message("Model did not return valid JSON."))
            /\ UNCHANGED <<plan_json, v_pc>>
    /\ UNCHANGED <<idx, errors, v_exc, svars, avars, ivars, suspended, input, modified_input, lookups, calculated_hours,
                   prompt, gen, ai_output, response, est_caught, gen_calls>>

\* plan_json = json.loads(ai_output), then the call of the validator
Parse ==
    /\ pc = "parse"
    /\ IF json_parses(ai_output)
       THEN /\ plan_json' = json_loads(ai_output)
            /\ v_pc' = "call"
            /\ pc' = "validate"
            /\ UNCHANGED caught
       ELSE /\ pc' = "except"
            /\ caught' = HTTPException(422, Message("Model did not return valid JSON."))
            /\ UNCHANGED <<plan_json, v_pc>>
    /\ UNCHANGED <<idx, errors, v_exc, svars, avars, ivars, suspended, input, modified_input, lookups, calculated_hours,
                   prompt, gen,
                   ai_output, response, est_caught, gen_calls>>

\* The validator returned: return {"success": True, "data": maintenance_tasks}
ReturnSuccess ==
    /\ pc = "validate"
    /\ v_pc = "returned"
    /\ response' = [kind |-> "success", body |-> SuccessBody(plan_json)]
    /\ pc' = "done"
    /\ UNCHANGED <<vvars, svars, avars, ivars, suspended, input, modified_input, lookups, calculated_hours, prompt, gen, ai_output, caught,
                   est_caught, gen_calls>>

\* The validator raised inside the try block: except Exception as e
CatchValidation ==
    /\ pc = "validate"
    /\ v_pc = "raised"
    /\ caught' = v_exc
    /\ pc' = "except"
    /\ UNCHANGED <<vvars, svars, avars, ivars, suspended, input, modified_input, lookups, calculated_hours, prompt, gen, ai_output, response,
                   est_caught, gen_calls>>

\* Mutant: an HTTPException passes the except clause as it is
ExceptHandler_ReraisingHTTP ==
    /\ pc = "except"
    /\ response' = IF caught.type = "HTTPException"
                   THEN [kind |-> "error", exc |-> caught] ELSE Response500
    /\ pc' = "done"
    /\ UNCHANGED <<vvars, svars, avars, ivars, suspended, input, modified_input, lookups, calculated_hours, prompt, gen, ai_output, caught,
                   est_caught, gen_calls>>

\* except Exception as e: raise HTTPException(status_code=500, ...)
ExceptHandler ==
    /\ pc = "except"
    /\ response' = Response500
    /\ pc' = "done"
    /\ UNCHANGED <<vvars, svars, avars, ivars, suspended, input, modified_input, lookups, calculated_hours, prompt, gen, ai_output, caught,
                   est_caught, gen_calls>>

Init ==
    /\ pc = "start"
    /\ input \in Requests
    /\ lookups = <<>>
    /\ calculated_hours = JNull
    /\ prompt = JNull
    /\ gen = JNull
    /\ ai_output = <<>>
    /\ caught = NoExc
    /\ response = [kind |-> "none"]
    /\ est_caught = NoExc
    /\ gen_calls = 0
    /\ modified_input = JNull
    /\ SuggestIdle /\ AdminIdle /\ InvitationIdle
    /\ suspended = NoFrame
    /\ plan_json = JNull
    /\ v_pc = "idle"
    /\ idx = 0
    /\ errors = <<>>
    /\ v_exc = NoExc

Next ==
    \/ Estimate
    \/ CompilePrompt
    \/ Generate
    \/ Parse
    \/ ValidateEnter
    \/ ValidateTask
    \/ ValidateExit
    \/ ReturnSuccess
    \/ CatchValidation
    \/ ExceptHandler

Spec == Init /\ [][Next]_vars

(***************************************************************************)
(* generate_ai_plan from the request to the rendered prompt, on more       *)
(* requests than Init draws.                                               *)
(***************************************************************************)
InitPrompt ==
    /\ pc = "start"
    /\ input \in EstimatorRequests \cup RenderRequests
    /\ lookups = <<>>
    /\ calculated_hours = JNull
    /\ prompt = JNull
    /\ gen = JNull
    /\ ai_output = <<>>
    /\ caught = NoExc
    /\ response = [kind |-> "none"]
    /\ est_caught = NoExc
    /\ gen_calls = 0
    /\ modified_input = JNull
    /\ SuggestIdle /\ AdminIdle /\ InvitationIdle
    /\ suspended = NoFrame
    /\ plan_json = JNull
    /\ v_pc = "idle"
    /\ idx = 0
    /\ errors = <<>>
    /\ v_exc = NoExc

NextPrompt == Estimate \/ CompilePrompt

SpecPrompt == InitPrompt /\ [][NextPrompt]_vars

(***************************************************************************)
(* Two invocations of generate_ai_plan in one process.  Every name the     *)
(* function and its validator assign is a local of the invocation; the     *)
(* module-level names (router, logger) are assigned at import only.  The   *)
(* variables of the handler are the locals of the invocation that runs,    *)
(* `suspended` holds those of the other one, and Switch lets the other one *)
(* run, between any two steps.                                             *)
(***************************************************************************)
\* The locals of the running invocation and of its validator call
Locals ==
    [ pc |-> pc, input |-> input, lookups |-> lookups,
      calculated_hours |-> calculated_hours, prompt |-> prompt, gen |-> gen,
      ai_output |-> ai_output, caught |-> caught, response |-> response,
      est_caught |-> est_caught, gen_calls |-> gen_calls,
      modified_input |-> modified_input,
      plan_json |-> plan_json, v_pc |-> v_pc, idx |-> idx, errors |-> errors,
      v_exc |-> v_exc ]

\* The locals of an invocation that has not made a step
FirstFrame(data) ==
    [ pc |-> "start", input |-> data, lookups |-> <<>>,
      calculated_hours |-> JNull, prompt |-> JNull, gen |-> JNull,
      ai_output |-> <<>>, caught |-> NoExc, response |-> [kind |-> "none"],
      est_caught |-> NoExc, gen_calls |-> 0, modified_input |-> JNull,
      plan_json |-> JNull, v_pc |-> "idle", idx |-> 0, errors |-> <<>>,
      v_exc |-> NoExc ]

\* Mutant: calculated_hours is a module-level name that the invocations share
Resume_ModuleLevelHours(frame) == [frame EXCEPT !.calculated_hours = calculated_hours]

\* What the names of an invocation hold when it runs again: what it assigned
Resume(frame) == frame

Switch ==
    /\ suspended # NoFrame
    /\ LET frame == Resume(suspended)
       IN /\ pc' = frame.pc
          /\ input' = frame.input
          /\ lookups' = frame.lookups
          /\ calculated_hours' = frame.calculated_hours
          /\ prompt' = frame.prompt
          /\ gen' = frame.gen
          /\ ai_output' = frame.ai_output
          /\ caught' = frame.caught
          /\ response' = frame.response
          /\ est_caught' = frame.est_caught
          /\ gen_calls' = frame.gen_calls
          /\ modified_input' = frame.modified_input
          /\ plan_json' = frame.plan_json
          /\ v_pc' = frame.v_pc
          /\ idx' = frame.idx
          /\ errors' = frame.errors
          /\ v_exc' = frame.v_exc
    /\ suspended' = Locals
    /\ UNCHANGED <<svars, avars, ivars>>

\* Two requests that differ in every field a mix-up could show in
PairRequests ==
    { Request(JStr(<<"1","0","0">>), <<JStr(<<"p","1">>), JStr(<<"c","1">>)>>, JStr(<<"A">>)),
      Request(JStr(<<>>), <<JNull, JNull>>, JNull) }

\* The answers of the collaborators in a pair of invocations
PairAnswers ==
    { Raises,
      Rows(<<[hours_run_per_week |-> Num(21)]>>),
      Rows(<<[plan_start_date |-> IsoDate(17)]>>), Rows(<<[plan_start_date |-> IsoDate(10)]>>) }

PairGenOutcomes ==
    { [k |-> "raise", at |-> "generate_content"],
      [k |-> "ok", text |-> Text(<<Prose>>)],
      [k |-> "ok", text |-> Text(<<JsonText(Plan(<<ValidTask>>))>>)],
      [k |-> "ok", text |-> Text(<<FenceJson, Space, JsonText(Plan(<<ValidTask, ValidTask>>)),
                                   Space, Fence>>)],
      [k |-> "ok", text |-> Text(<<Fence, JsonText(Plan(<<Without(ValidTask, {"task_name"})>>)),
                                   Fence>>)] }

PairAnswered ==
    /\ \A n \in 1..Len(lookups) : lookups[n].answer \in PairAnswers
    /\ gen # JNull => gen \in PairGenOutcomes

InitPair ==
    /\ pc = "start"
    /\ input \in PairRequests
    /\ lookups = <<>>
    /\ calculated_hours = JNull
    /\ prompt = JNull
    /\ gen = JNull
    /\ ai_output = <<>>
    /\ caught = NoExc
    /\ response = [kind |-> "none"]
    /\ est_caught = NoExc
    /\ gen_calls = 0
    /\ modified_input = JNull
    /\ SuggestIdle /\ AdminIdle /\ InvitationIdle
    /\ suspended \in {FirstFrame(data) : data \in PairRequests}
    /\ plan_json = JNull
    /\ v_pc = "idle"
    /\ idx = 0
    /\ errors = <<>>
    /\ v_exc = NoExc

NextPair ==
    \/ Estimate /\ PairAnswered'
    \/ CompilePrompt
    \/ Generate /\ PairAnswered'
    \/ Parse
    \/ ValidateEnter
    \/ ValidateTask
    \/ ValidateExit
    \/ ReturnSuccess
    \/ CatchValidation
    \/ ExceptHandler
    \/ Switch

SpecPair == InitPair /\ [][NextPair]_vars

(***************************************************************************)
(* The plan endpoint and its validator when another endpoint is called.    *)
(***************************************************************************)
PlanIdle ==
    /\ pc = "none"
    /\ input = JNull
    /\ lookups = <<>>
    /\ calculated_hours = JNull
    /\ prompt = JNull
    /\ gen = JNull
    /\ ai_output = <<>>
    /\ caught = NoExc
    /\ response = [kind |-> "none"]
    /\ est_caught = NoExc
    /\ gen_calls = 0
    /\ modified_input = JNull
    /\ plan_json = JNull
    /\ v_pc = "idle"
    /\ idx = 0
    /\ errors = <<>>
    /\ v_exc = NoExc
    /\ suspended = NoFrame

(***************************************************************************)
(* suggest_child_assets (suggest_child_assets.py).  An exception that no   *)
(* except clause of the function catches leaves it as it is: the result    *)
(* then carries that exception, which is no HTTPException.                 *)
(***************************************************************************)
ChildSuggestInput(make, environment) ==
    [ parent_asset_name |-> JStr(<<"P","u","m","p">>), parent_asset_make |-> make,
      parent_asset_model |-> JNull, parent_asset_category |-> JNull,
      environment |-> environment, additional_context |-> JNull ]

SuggestInputs ==
    {ChildSuggestInput(make, environment) :
        make \in {JNull, JStr(<<"A">>)}, environment \in {JNull, JStr(<<"A">>)}}

\* raw_content.replace(FenceJson, "").replace(Fence, "").strip()
clean_content(text) == strip_text(replace(replace(text.toks, FenceJson), Fence))

\* response = model.generate_content(...), inside try / except Exception
SuggestGenerate ==
    /\ s_pc = "start"
    /\ \E outcome \in GenOutcomes :
        /\ s_response' = outcome
        /\ IF outcome.k = "raise" /\ outcome.at = "generate_content"
           THEN /\ s_result' = [kind |-> "error",
                                exc |-> HTTPException(502, Message("Gemini API error"))]
                /\ s_pc' = "done"
           ELSE /\ s_pc' = "clean"
                /\ UNCHANGED s_result
    /\ UNCHANGED <<vvars, pvars, avars, ivars, suspended, input_data, raw_content>>

\* raw_content = response.text; raw_content = raw_content.replace(...)...strip(),
\* outside every try
SuggestClean ==
    /\ s_pc = "clean"
    /\ IF s_response.k = "raise"
       THEN /\ s_result' = [kind |-> "error", exc |-> Raised("Exception", "response.text")]
            /\ s_pc' = "done"
            /\ UNCHANGED raw_content
       ELSE IF s_response.text.t = "null"
       THEN /\ s_result' = [kind |-> "error", exc |-> Raised("AttributeError", "replace")]
            /\ s_pc' = "done"
            /\ UNCHANGED raw_content
       ELSE /\ raw_content' = clean_content(s_response.text)
            /\ s_pc' = "parse"
            /\ UNCHANGED s_result
    /\ UNCHANGED <<vvars, pvars, avars, ivars, suspended, input_data, s_response>>

\* suggestions_data = json.loads(raw_content); return, or the 500
SuggestParse ==
    /\ s_pc = "parse"
    /\ s_result' = IF json_parses(raw_content)
                   THEN [kind |-> "success",
                         body |-> [success |-> TRUE, suggestions |-> json_loads(raw_content)]]
                   ELSE [kind |-> "error",
                         exc |-> HTTPException(500, Message("AI returned invalid JSON format"))]
    /\ s_pc' = "done"
    /\ UNCHANGED <<vvars, pvars, avars, ivars, suspended, input_data, s_response, raw_content>>

InitSuggest ==
    /\ s_pc = "start"
    /\ input_data \in SuggestInputs
    /\ s_response = JNull
    /\ raw_content = <<>>
    /\ s_result = [kind |-> "none"]
    /\ PlanIdle /\ AdminIdle /\ InvitationIdle

NextSuggest == SuggestGenerate \/ SuggestClean \/ SuggestParse

SpecSuggest == InitSuggest /\ [][NextSuggest]_vars

(***************************************************************************)
(* create_site_admin (create_site_admin.py).  a_calls lists the calls made *)
(* on the Supabase client in order, each with what it did.  The function's *)
(* body is one try block: an HTTPException raised inside leaves as it is   *)
(* (`except HTTPException: raise`), any other exception as a 500.          *)
(***************************************************************************)
SiteAdminRequest(full_name) == [email |-> JStr(<<"a","@","b">>), full_name |-> full_name]

SiteAdminRequests == {SiteAdminRequest(name) : name \in {JNull, JStr(<<"A","n","n">>)}}

CallerIds == {JNull, JStr(<<>>), JStr(<<"u","1">>)}

Call(op, did) == [op |-> op, did |-> did]

\* What .single().execute() can answer: the row, or no data
Data(row) == [k |-> "data", data |-> row]
UserRow(site_admin) == [id |-> JStr(<<"u","2">>), site_admin |-> site_admin]

CallerAnswers ==
    {Raises, Data(JNull)} \cup {Data(UserRow(flag)) : flag \in {JNull, JBool(FALSE), JBool(TRUE)}}

ExistingAnswers ==
    {Raises, Rows(<<>>)} \cup {Rows(<<UserRow(flag)>>) : flag \in {JNull, JBool(FALSE), JBool(TRUE)}}

\* What the promoting update can answer: a response whose .error is None, is
\* set, or is no attribute of the response
UpdateAnswers == {Raises} \cup {[k |-> "response", error |-> e] : e \in {"None", "set", "no attribute"}}

\* What auth.admin.create_user can answer
CreateUserAnswers ==
    {Raises, [k |-> "none"], [k |-> "response", user |-> JNull],
     [k |-> "response", user |-> [id |-> JStr(<<"u","3">>)]]}

Done == [k |-> "done"]

AdminError(status, text) == [kind |-> "error", exc |-> HTTPException(status, Message(text))]

\* except Exception as e: raise HTTPException(status_code=500, ...)
AdminFailed == AdminError(500, "Failed to create site admin")

\* os.getenv(...), create_client(supabase_url, supabase_key)
AdminCreateClient ==
    /\ a_pc = "start"
    /\ \E credentials \in {"present", "missing"}, did \in {Done, Raises} :
         IF credentials = "missing"
         THEN /\ a_result' = AdminError(500, "Missing Supabase service credentials")
              /\ a_pc' = "done"
              /\ UNCHANGED a_calls
         ELSE /\ a_calls' = Append(a_calls, Call("create_client", did))
              /\ IF did = Raises
                 THEN a_result' = AdminFailed /\ a_pc' = "done"
                 ELSE a_pc' = "verify" /\ UNCHANGED a_result
    /\ UNCHANGED <<vvars, pvars, svars, ivars, suspended, a_request, current_user_id>>

\* if current_user_id: ... 403 unless the caller's row says site_admin
AdminVerifyCaller ==
    /\ a_pc = "verify"
    /\ IF Truthy(current_user_id)
       THEN \E answer \in CallerAnswers :
              /\ a_calls' = Append(a_calls, Call("users.select(site_admin)", answer))
              /\ IF answer = Raises
                 THEN a_result' = AdminFailed /\ a_pc' = "done"
                 ELSE IF answer.data = JNull \/ ~Truthy(answer.data.site_admin)
                 THEN /\ a_result' = AdminError(403, "Only site admins can create new site admins")
                      /\ a_pc' = "done"
                 ELSE a_pc' = "existing" /\ UNCHANGED a_result
       ELSE /\ a_pc' = "existing"
            /\ UNCHANGED <<a_calls, a_result>>
    /\ UNCHANGED <<vvars, pvars, svars, ivars, suspended, a_request, current_user_id>>

\* existing_user_response = ...eq("email", request.email).execute()
AdminCheckExisting ==
    /\ a_pc = "existing"
    /\ \E answer \in ExistingAnswers :
         /\ a_calls' = Append(a_calls, Call("users.select(email)", answer))
         /\ IF answer = Raises
            THEN a_result' = AdminFailed /\ a_pc' = "done"
            ELSE IF Len(answer.rows) = 0
            THEN a_pc' = "create" /\ UNCHANGED a_result
            ELSE IF Truthy(answer.rows[1].site_admin)
            THEN a_result' = AdminError(400, "User is already a site admin") /\ a_pc' = "done"
            ELSE a_pc' = "promote" /\ UNCHANGED a_result
    /\ UNCHANGED <<vvars, pvars, svars, ivars, suspended, a_request, current_user_id>>

\* The existing user is promoted: update({"site_admin": True}), then the look
\* at update_response.error
AdminPromote ==
    /\ a_pc = "promote"
    /\ \E answer \in UpdateAnswers :
         /\ a_calls' = Append(a_calls, Call("users.update(promote)", answer))
         /\ a_result' =
              IF answer = Raises \/ answer.error = "no attribute" THEN AdminFailed
              ELSE IF answer.error = "set"
              THEN AdminError(500, "Failed to promote user to site admin")
              ELSE [kind |-> "success",
                    body |-> [success |-> TRUE, promoted |-> TRUE,
                              message |-> "Existing user promoted to site admin",
                              user_id |-> a_calls[Len(a_calls)].did.rows[1].id]]
    /\ a_pc' = "done"
    /\ UNCHANGED <<vvars, pvars, svars, ivars, suspended, a_request, current_user_id>>

\* auth_response = supabase.auth.admin.create_user({...}), in its own try
AdminCreateUser ==
    /\ a_pc = "create"
    /\ \E answer \in CreateUserAnswers :
         /\ a_calls' = Append(a_calls, Call("auth.admin.create_user", answer))
         /\ IF answer.k = "response" /\ answer.user # JNull
            THEN a_pc' = "flag" /\ UNCHANGED a_result
            ELSE /\ a_result' = AdminError(500, "Failed to create user account")
                 /\ a_pc' = "done"
    /\ UNCHANGED <<vvars, pvars, svars, ivars, suspended, a_request, current_user_id>>

\* update({"site_admin": True, "full_name": ...}) in a try whose except only
\* prints
AdminSetFlag ==
    /\ a_pc = "flag"
    /\ \E did \in {Done, Raises} :
         a_calls' = Append(a_calls, Call("users.update(site_admin)", did))
    /\ a_pc' = "invite"
    /\ UNCHANGED <<vvars, pvars, svars, ivars, suspended, a_request, current_user_id, a_result>>

\* invite_user_by_email(...) in a try whose except only prints, then the
\* success result
AdminInvite ==
    /\ a_pc = "invite"
    /\ \E did \in {Done, Raises} :
         a_calls' = Append(a_calls, Call("auth.admin.invite_user_by_email", did))
    /\ a_result' = [kind |-> "success",
                    body |-> [success |-> TRUE, promoted |-> FALSE,
                              message |-> "Site admin created successfully. Invitation email sent to",
                              user_id |-> a_calls[Len(a_calls) - 1].did.user.id]]
    /\ a_pc' = "done"
    /\ UNCHANGED <<vvars, pvars, svars, ivars, suspended, a_request, current_user_id>>

InitSiteAdmin ==
    /\ a_pc = "start"
    /\ a_request \in SiteAdminRequests
    /\ current_user_id \in CallerIds
    /\ a_calls = <<>>
    /\ a_result = [kind |-> "none"]
    /\ PlanIdle /\ SuggestIdle /\ InvitationIdle

NextSiteAdmin ==
    \/ AdminCreateClient
    \/ AdminVerifyCaller
    \/ AdminCheckExisting
    \/ AdminPromote
    \/ AdminCreateUser
    \/ AdminSetFlag
    \/ AdminInvite

SpecSiteAdmin == InitSiteAdmin /\ [][NextSiteAdmin]_vars

(***************************************************************************)
(* send_invitation_email (send_invitation.py).  The whole body is one try  *)
(* block with `except Exception as e` as its only handler.                 *)
(***************************************************************************)
InvitationRequest(email, full_name, site_id) ==
    [ email |-> email, full_name |-> full_name,
      invitation_token |-> JStr(<<"t","o","k">>), site_id |-> site_id ]

InvitationRequests ==
    {InvitationRequest(email, full_name, site_id) :
        email \in {JStr(<<"a","@","b">>), JStr(<<>>)},
        full_name \in {JNull, JStr(<<>>), JStr(<<"A","n","n">>)},
        site_id \in {JStr(<<"s","1">>), JStr(<<>>)}}

SiteName == JStr(<<"P","l","a","n","t">>)
CompanyName == JStr(<<"A","c","m","e">>)

\* The rows a site lookup can return: with its company, without one, with a
\* company that has no name, without its own name, and the empty row
SiteRows ==
    { JDict([k \in {"name", "companies"} |->
               IF k = "name" THEN SiteName ELSE JDict([c \in {"name"} |-> CompanyName])]),
      JDict([k \in {"name", "companies"} |-> IF k = "name" THEN SiteName ELSE JNull]),
      JDict([k \in {"name"} |-> SiteName]),
      JDict([k \in {"name", "companies"} |->
               IF k = "name" THEN SiteName ELSE JDict([c \in {"id"} |-> JStr(<<"7">>)])]),
      JDict([k \in {"companies"} |-> JDict([c \in {"name"} |-> CompanyName])]),
      JDict(EmptyMap) }

SiteAnswers == {Raises, Data(JNull)} \cup {Data(row) : row \in SiteRows}

\* bool(d) of a dict
NonEmpty(d) == DOMAIN d.m # {}

\* site.get('companies') is truthy
HasCompany(site) ==
    /\ HasKey(site, "companies")
    /\ IF IsDict(site.m["companies"]) THEN NonEmpty(site.m["companies"])
       ELSE Truthy(site.m["companies"])

\* company_name = site['companies']['name'] if site.get('companies') else ...;
\* site_name = site['name']: a KeyError is raised for a missing key
ComposeRaises(site) ==
    \/ HasCompany(site) /\ ~HasKey(site.m["companies"], "name")
    \/ ~HasKey(site, "name")

\* site_response = ...eq("id", request.site_id).single().execute(); 404 if
\* not site_response.data
InvitationLookup ==
    /\ i_pc = "start"
    /\ \E answer \in SiteAnswers :
         /\ site_response' = answer
         /\ IF answer = Raises
            THEN i_caught' = Raised("Exception", "sites") /\ i_pc' = "except"
            ELSE IF answer.data = JNull \/ ~NonEmpty(answer.data)
            THEN /\ i_caught' = HTTPException(404, Message("Site not found"))
                 /\ i_pc' = "except"
            ELSE i_pc' = "compose" /\ UNCHANGED i_caught
    /\ UNCHANGED <<vvars, pvars, svars, avars, suspended, i_request, i_mail, i_result>>

\* The names, the recipient and the subject; the prints; the success result
InvitationCompose ==
    /\ i_pc = "compose"
    /\ LET site == site_response.data
       IN IF ComposeRaises(site)
          THEN /\ i_caught' = Raised("KeyError", "site")
               /\ i_pc' = "except"
               /\ UNCHANGED <<i_mail, i_result>>
          ELSE /\ i_mail' = [ recipient_name |-> OrElse(i_request.full_name,
                                                         JStr(<<"t","h","e","r","e">>)),
                               company_name |-> IF HasCompany(site)
                                                THEN site.m["companies"].m["name"]
                                                ELSE JStr(<<"t","h","e"," ","c","o","m","p","a","n","y">>),
                               site_name |-> site.m["name"],
                               token |-> i_request.invitation_token ]
               /\ i_result' = [kind |-> "success",
                               body |-> [success |-> TRUE,
                                         message |-> "Invitation email sent successfully"]]
               /\ i_pc' = "done"
               /\ UNCHANGED i_caught
    /\ UNCHANGED <<vvars, pvars, svars, avars, suspended, i_request, site_response>>

\* except Exception as e: raise HTTPException(status_code=500, ...)
InvitationExcept ==
    /\ i_pc = "except"
    /\ i_result' = [kind |-> "error",
                    exc |-> HTTPException(500, Message("Failed to send invitation email"))]
    /\ i_pc' = "done"
    /\ UNCHANGED <<vvars, pvars, svars, avars, suspended, i_request, site_response, i_mail, i_caught>>

InitInvitation ==
    /\ i_pc = "start"
    /\ i_request \in InvitationRequests
    /\ site_response = JNull
    /\ i_mail = JNull
    /\ i_caught = NoExc
    /\ i_result = [kind |-> "none"]
    /\ PlanIdle /\ SuggestIdle /\ AdminIdle

NextInvitation == InvitationLookup \/ InvitationCompose \/ InvitationExcept

SpecInvitation == InitInvitation /\ [][NextInvitation]_vars

(***************************************************************************)
(* Vocabulary of the properties.                                           *)
(***************************************************************************)
\* The candidate passes the structural gate
GatePassed ==
    /\ IsDict(plan_json)
    /\ HasKey(plan_json, "maintenance_plan")
    /\ IsList(tasks)
    /\ Len(tasks.items) > 0

\* The validator has finished, by returning or by raising
Finished == v_pc \in {"returned", "raised"}

\* The validator raised its 422 with a list of violations
ReportsList ==
    /\ v_pc = "raised"
    /\ v_exc.type = "HTTPException"
    /\ v_exc.detail.kind = "validation_errors"

Reported == v_exc.detail.errors

InSeq(x, seq) == \E n \in 1..Len(seq) : seq[n] = x

\* float(value) yields a number
Coercible(v) ==
    \/ v.t \in {"float", "bool"}
    \/ v.t = "int" /\ v.fits
    \/ v.t = "str" /\ float_str_ok(v.s)

\* A str that equals High, Medium or Low once trimmed, letter case ignored
IsRating(v) ==
    /\ v.t = "str"
    /\ lower_str(strip(v.s)) \in { <<"h","i","g","h">>, <<"m","e","d","i","u","m">>,
                                   <<"l","o","w">> }

\* The checks on the values of the keys that are present all pass
ValuesPass(task) ==
    /\ \A key \in {"maintenance_interval", "estimated_time_minutes"} :
          HasKey(task, key) => Coercible(task.m[key])
    /\ HasKey(task, "criticality_rating") => IsRating(task.m["criticality_rating"])
    /\ HasKey(task, "inherits_parent_context") => task.m["inherits_parent_context"].t = "bool"
    /\ HasKey(task, "context_overrides") => task.m["context_overrides"].t = "dict"
    /\ ~HasKey(task, "scheduled_dates")

MissingKeys(task) == RequiredKeySet \ DOMAIN task.m

RECURSIVE AllTaskErrors(_, _)
AllTaskErrors(items, n) ==
    IF n > Len(items) THEN <<>>
    ELSE TaskErrors(items[n], n - 1) \o AllTaskErrors(items, n + 1)

(***************************************************************************)
(* Properties of generate_ai_plan and of the Plan Validator.               *)
(***************************************************************************)

\* C1: when the generated text parses as JSON and the validator raises its
\* 422, the caller receives that 422 with the validator's detail.
C1_SchemaViolationIs422 ==
    (pc = "done" /\ v_pc = "raised" /\ v_exc.type = "HTTPException")
        => /\ response.kind = "error"
           /\ response.exc.status = 422
           /\ response.exc.detail = v_exc.detail

\* C2: a plan of one task that is an object missing exactly k required keys,
\* every value present passing its check, is accepted when k = 0 and otherwise
\* reported with exactly k entries, one "is missing" entry per missing key.
C2_OneEntryPerMissingKey ==
    (Finished /\ GatePassed /\ Len(tasks.items) = 1
       /\ IsDict(tasks.items[1]) /\ ValuesPass(tasks.items[1]))
        => LET missing == MissingKeys(tasks.items[1])
           IN IF missing = {} THEN v_pc = "returned"
              ELSE /\ ReportsList
                   /\ Len(Reported) = Cardinality(missing)
                   /\ \A key \in missing : InSeq(Entry(0, key, "is missing"), Reported)

C2_Witness ==
    /\ ReportsList
    /\ Len(tasks.items) = 1
    /\ IsDict(tasks.items[1])
    /\ Cardinality(MissingKeys(tasks.items[1])) = 3
    /\ {"maintenance_interval", "criticality_rating"} \subseteq MissingKeys(tasks.items[1])
    /\ Len(Reported) = 3

\* C3: whenever the validator fails on a candidate that passed the structural
\* gate, it has examined every task, and what it reports is the concatenation,
\* in task order, of the violations of each task.
C3_EveryTaskExamined ==
    (v_pc = "raised" /\ GatePassed)
        => /\ idx = Len(tasks.items)
           /\ ReportsList
           /\ Reported = AllTaskErrors(tasks.items, 1)

\* C4: a candidate that is no mapping, lacks maintenance_plan, or maps it to a
\* non-list or an empty list fails with a single message before any task is
\* checked; a failure after the gate carries a validation_errors list instead.
C4_StructuralGate ==
    /\ (~GatePassed /\ v_pc \notin {"idle", "call"})
          => /\ v_pc = "raised"
             /\ v_exc.type = "HTTPException"
             /\ v_exc.status = 422
             /\ v_exc.detail.kind = "message"
             /\ idx = 0
             /\ errors = <<>>
    /\ (GatePassed /\ v_pc = "raised" /\ v_exc.type = "HTTPException")
          => v_exc.detail.kind = "validation_errors"

C4_Witness ==
    /\ v_pc = "raised"
    /\ plan_json = Plan(<<>>)
    /\ v_exc.detail.kind = "message"
    /\ idx = 0

\* C5: a plan with a task that contains the key scheduled_dates, whatever its
\* value, is never accepted, and a reported list names that key of that task.
C5_ScheduledDatesRejected ==
    (Finished /\ GatePassed)
        => \A n \in 1..Len(tasks.items) :
              (IsDict(tasks.items[n]) /\ HasKey(tasks.items[n], "scheduled_dates"))
                  => /\ v_pc = "raised"
                     /\ ReportsList =>
                           \E e \in 1..Len(Reported) :
                              /\ Reported[e].idx = n - 1
                              /\ Reported[e].key = "scheduled_dates"

C5_Witness ==
    /\ ReportsList
    /\ Len(tasks.items) = 1
    /\ IsDict(tasks.items[1])
    /\ Without(tasks.items[1], {"scheduled_dates"}) = ValidTask
    /\ HasKey(tasks.items[1], "scheduled_dates")
    /\ Len(Reported) = 1

\* C6: in every finished validation that did not abort, the criticality_rating
\* of a task is reported exactly when it is not a str equal to High, Medium or
\* Low after trimming and ignoring letter case.
C6_CriticalityRating ==
    (Finished /\ GatePassed /\ (v_pc = "returned" \/ ReportsList))
        => \A n \in 1..Len(tasks.items) :
              (IsDict(tasks.items[n]) /\ HasKey(tasks.items[n], "criticality_rating"))
                  => (IsRating(tasks.items[n].m["criticality_rating"])
                        <=> ~(/\ v_pc = "raised"
                              /\ \E e \in 1..Len(Reported) :
                                    /\ Reported[e].idx = n - 1
                                    /\ Reported[e].key = "criticality_rating"))

C6_Witness ==
    /\ ReportsList
    /\ Len(tasks.items) = 2
    /\ IsDict(tasks.items[1]) /\ HasKey(tasks.items[1], "criticality_rating")
    /\ IsDict(tasks.items[2]) /\ HasKey(tasks.items[2], "criticality_rating")
    /\ tasks.items[1].m["criticality_rating"] = JStr(<<"h","i","g","h">>)
    /\ tasks.items[2].m["criticality_rating"] = JStr(<<"C","r","i","t","i","c","a","l">>)
    /\ Reported = <<Entry(1, "criticality_rating", "must be one of High, Medium, Low")>>

\* C7: once the validator has finished on a candidate that passed the gate, a
\* maintenance_interval or estimated_time_minutes is reported as "must be
\* numeric" exactly when the key is present and float() of its value yields no
\* number.
C7_NumericReported ==
    (Finished /\ GatePassed)
        => \A n \in 1..Len(tasks.items) :
              \A key \in {"maintenance_interval", "estimated_time_minutes"} :
                 IsDict(tasks.items[n])
                    => ((HasKey(tasks.items[n], key) /\ ~Coercible(tasks.items[n].m[key]))
                          <=> /\ ReportsList
                              /\ \E e \in 1..Len(Reported) :
                                    /\ Reported[e].idx = n - 1
                                    /\ Reported[e].key = key
                                    /\ Reported[e].msg # "is missing")

\* C8: no step of the validator changes the candidate.
C8_CandidateUnchanged == [][plan_json' = plan_json]_vars

C8_Witness ==
    /\ ReportsList
    /\ Len(tasks.items) = 1
    /\ IsDict(tasks.items[1])
    /\ HasKey(tasks.items[1], "scheduled_dates")
    /\ MissingKeys(tasks.items[1]) = {}
    /\ tasks.items[1].m["criticality_rating"] = JStr(<<"C","r","i","t","i","c","a","l">>)
    /\ tasks.items[1].m["maintenance_interval"] = JStr(<<"w","e","e","k","l","y">>)

\* C9: the caller receives the success response exactly when the generation
\* call returned, its cleaned text parsed and the validator returned; data is
\* then the maintenance_plan list of the parsed value, and is not empty.
C9_SuccessIffValidated ==
    (pc = "done")
        => /\ (response.kind = "success")
                <=> (gen.k = "ok" /\ json_parses(ai_output) /\ v_pc = "returned")
           /\ (response.kind = "success")
                => /\ response.body.success = TRUE
                   /\ response.body.data = json_loads(ai_output).m["maintenance_plan"].items
                   /\ Len(response.body.data) > 0

C9_Witness ==
    /\ pc = "done"
    /\ response.kind = "success"
    /\ gen.text.toks[1] = FenceJson
    /\ Len(response.body.data) = 2

\* C10: every task of a success response is an object with the 21 required
\* keys, numeric maintenance_interval and estimated_time_minutes, a rating in
\* High, Medium, Low up to case and trimming, a boolean inherits_parent_context,
\* a mapping context_overrides and no scheduled_dates.
C10_SuccessTasksConform ==
    (response.kind = "success")
        => \A n \in 1..Len(response.body.data) :
              LET task == response.body.data[n]
              IN /\ IsDict(task)
                 /\ MissingKeys(task) = {}
                 /\ ValuesPass(task)

C10_Witness ==
    /\ pc = "done"
    /\ response.kind = "success"
    /\ Len(response.body.data) = 2
    /\ response.body.data[2].m["maintenance_interval"] = JStr(<<"4",".","5">>)
    /\ response.body.data[2].m["criticality_rating"] = JStr(<<"h","i","g","h">>)

(***************************************************************************)
(* Vocabulary of the properties of the runtime-hours calculation and of    *)
(* the prompt.                                                             *)
(***************************************************************************)
\* Both asset ids are given and not empty
BothIds == Truthy(input.parent_asset_id) /\ Truthy(input.child_asset_id)

\* generate_prompt has rendered the prompt
Rendered == prompt # JNull

\* The parent lookup answered without a row or without a usable weekly rate
NoRate ==
    /\ Len(lookups) >= 1
    /\ lookups[1].answer.k = "rows"
    /\ \/ Len(lookups[1].answer.rows) = 0
       \/ ~Truthy(lookups[1].answer.rows[1].hours_run_per_week)

\* The child lookup answered without a row or without an install date
NoInstallDate ==
    /\ Len(lookups) = 2
    /\ lookups[2].answer.k = "rows"
    /\ \/ Len(lookups[2].answer.rows) = 0
       \/ ~Truthy(lookups[2].answer.rows[1].plan_start_date)

\* The calculation assigned calculated_hours
EstimateProduced ==
    /\ pc # "start"
    /\ est_caught = NoExc
    /\ Len(lookups) = 2
    /\ ~NoInstallDate

days_since_install == lookups[2].answer.rows[1].plan_start_date.days
weekly_rate == lookups[1].answer.rows[1].hours_run_per_week.n

\* max(0, floor(days / 7 * rate)) in exact arithmetic
ExactHours(days, rate) == Max(0, (days * rate) \div 7)

\* C11: every task of a candidate the validator accepts has a context_overrides
\* object whose keys are among site_location, environment, operating_hours and
\* criticality.
C11_OverrideKeysRestricted ==
    (v_pc = "returned")
        => \A n \in 1..Len(tasks.items) :
              DOMAIN tasks.items[n].m["context_overrides"].m \subseteq AllowedOverrideKeys

\* C12: when the calculation assigns calculated_hours, the value is the decimal
\* text of max(0, floor(days since install / 7 * weekly rate)), never of a
\* negative number, and "0" for an install date a week ahead.
C12_EstimateIsFloor ==
    EstimateProduced
        => /\ calculated_hours = JStr(str_int(ExactHours(days_since_install, weekly_rate)))
           /\ (days_since_install < 0 /\ weekly_rate > 0) => calculated_hours = JStr(<<"0">>)

\* C13 as stated: when the parent lookup answers without a row or a usable
\* rate, or the child lookup without a row or a date, calculated_hours is the
\* caller's hours, the rendered hours is that same text, and without a usable
\* rate the child lookup is not made.
C13_NoEstimateHoursUnchanged ==
    (Rendered /\ (NoRate \/ NoInstallDate))
        => /\ calculated_hours = input.hours
           /\ prompt.hours = input.hours
           /\ NoRate => Len(lookups) = 1

\* C13 amended: as C13, but the rendered hours is the caller's text when that
\* is not empty and "Not applicable" when it is empty.
C13_NoEstimateHoursPassed ==
    (Rendered /\ (NoRate \/ NoInstallDate))
        => /\ calculated_hours = input.hours
           /\ prompt.hours = (IF Len(input.hours.s) > 0 THEN input.hours ELSE JStr(NA))
           /\ NoRate => Len(lookups) = 1

C13_Witness ==
    /\ Rendered
    /\ NoRate
    /\ Len(lookups[1].answer.rows) = 1
    /\ lookups[1].answer.rows[1].hours_run_per_week = Num(0)
    /\ prompt.hours = JStr(<<"1","0","0">>)

\* C14: when the calculation's except clause caught an exception, the caller's
\* hours stay, generate_ai_plan goes on to render the prompt with them and to
\* call generation, and an error response, if any, comes from the generation
\* try block.
C14_EstimatorFailureSwallowed ==
    (est_caught # NoExc)
        => /\ pc # "start"
           /\ calculated_hours = input.hours
           /\ Rendered => prompt.hours = (IF Len(input.hours.s) > 0 THEN input.hours ELSE JStr(NA))
           /\ (pc = "done") => /\ Rendered
                               /\ gen_calls = 1
                               /\ (response.kind = "error") => caught # NoExc

C14_Witness ==
    /\ est_caught = Raised("TypeError", "weeks_since_install * hours_run_per_week")
    /\ pc = "done"
    /\ response.kind = "success"

\* C15 as stated: lookups are made only when both asset ids are given and not
\* empty; otherwise none is made and the rendered hours is the caller's text.
C15_NoIdsHoursVerbatim ==
    /\ (lookups # <<>>) => BothIds
    /\ (Rendered /\ ~BothIds) => (lookups = <<>> /\ prompt.hours = input.hours)

\* C15 amended: as C15, but the rendered hours is the caller's text when that
\* is not empty and "Not applicable" when it is empty.
C15_NoIdsNoLookup ==
    /\ (lookups # <<>>) => BothIds
    /\ (Rendered /\ ~BothIds)
         => /\ lookups = <<>>
            /\ calculated_hours = input.hours
            /\ Len(input.hours.s) > 0 => prompt.hours = input.hours
            /\ Len(input.hours.s) = 0 => prompt.hours = JStr(NA)

C15_Witness ==
    /\ Rendered
    /\ input.parent_asset_id = JStr(<<"p","1">>)
    /\ input.child_asset_id = JNull
    /\ lookups = <<>>
    /\ prompt.hours = JStr(<<"1","0","0">>)

\* C16: in a rendered prompt parent_asset, child_asset, site_location and
\* environment read "Not applicable" when the request omits them or gives an
\* empty text, and no placeholder is rendered as an empty text or as None.
C16_NoEmptyPlaceholder ==
    Rendered
        => /\ \A field \in {"parent_asset", "child_asset", "site_location", "environment"} :
                 ~Truthy(input[field]) => prompt[field] = JStr(NA)
           /\ \A field \in DOMAIN prompt :
                 IsStr(prompt[field]) /\ Len(prompt[field].s) > 0

C16_Witness ==
    /\ Rendered
    /\ input.parent_asset = JNull
    /\ input.child_asset = JStr(<<>>)
    /\ input.site_location = JStr(<<"A">>)
    /\ input.criticality = JStr(<<>>)
    /\ input.hours = JStr(<<>>)
    /\ prompt.child_asset = JStr(NA)
    /\ prompt.site_location = JStr(<<"A">>)

\* C18: model.generate_content is called at most once, and when the call or
\* the read of its text raised, the caller receives the 500 after that one call.
C18_GenerationFailureIs500Once ==
    /\ gen_calls <= 1
    /\ (pc = "done" /\ gen.k = "raise") => (response = Response500 /\ gen_calls = 1)

C18_Witness ==
    /\ pc = "done"
    /\ gen = [k |-> "raise", at |-> "generate_content"]
    /\ response = Response500

\* C19: when the call returned and the cleaned text does not parse as JSON, the
\* caller receives an error of status 500 or above, never the success
\* response; the validator was not called and generation was called once.
C19_UnparseableIsServerError ==
    (pc = "done" /\ gen.k = "ok" /\ ~json_parses(ai_output))
        => /\ response.kind = "error"
           /\ response.exc.status >= 500
           /\ v_pc = "idle"
           /\ gen_calls = 1

C19_Witness ==
    /\ pc = "done"
    /\ gen.k = "ok"
    /\ gen.text = Text(<<Prose, Space, JsonText(Plan(<<ValidTask>>))>>)
    /\ response.kind = "error"

\* C20: an exception caught in the generation try block always ends in an error
\* response, and an HTTPException caught there (unparseable text, schema
\* violation) reaches the caller with its own status and detail.
C20_FailuresKeepKindAndLocation ==
    (pc = "done" /\ caught # NoExc)
        => /\ response.kind = "error"
           /\ (caught.type = "HTTPException") => response.exc = caught

\* C21: in every step of a request, lookups are made only before the prompt
\* is rendered, the prompt is rendered only after the calculation step and
\* before generation is called, generation is called only with a rendered
\* prompt and before the validator starts, the validator starts only on the
\* parsed text of the one generation call and from its first line, and the
\* success response is built only after the validator returned on that parsed
\* value.
C21_StepOrder ==
    [][ /\ (lookups' # lookups) => (pc = "start" /\ prompt = JNull)
        /\ (prompt' # prompt) => (pc = "prompt" /\ gen_calls = 0)
        /\ (gen_calls' # gen_calls) => (prompt # JNull /\ v_pc = "idle")
        /\ (v_pc = "idle" /\ v_pc' # "idle")
             => (v_pc' = "call" /\ gen_calls = 1 /\ gen.k = "ok" /\ json_parses(ai_output))
        /\ (response'.kind = "success")
             => /\ v_pc = "returned"
                /\ gen_calls = 1
                /\ prompt # JNull
                /\ plan_json = json_loads(ai_output) ]_vars

C21_Witness ==
    /\ pc = "done"
    /\ response.kind = "success"
    /\ Len(lookups) = 2
    /\ calculated_hours = JStr(<<"5","7">>)
    /\ prompt.hours = JStr(<<"5","7">>)
    /\ v_pc = "returned"

\* C22: no step changes the request received, and the request handed to
\* generate_prompt has the fields of the received one with the same values,
\* the hours excepted.
C22_RequestNotMutated ==
    [][ /\ input' = input
        /\ (modified_input' # JNull)
             => /\ DOMAIN modified_input' = DOMAIN input
                /\ \A field \in DOMAIN input \ {"hours"} :
                      modified_input'[field] = input[field] ]_vars

C22_Witness ==
    /\ modified_input # JNull
    /\ input.hours = JStr(<<"1","0","0">>)
    /\ modified_input.hours = JStr(<<"5","0">>)
    /\ modified_input.child_asset_id = JStr(<<"c","1">>)
    /\ modified_input.parent_asset = JStr(<<"A">>)

\* The text of the generation answer parses as JSON once its fences are
\* stripped
SuggestionParses ==
    /\ s_response.k = "ok"
    /\ s_response.text.t # "null"
    /\ json_parses(clean_content(s_response.text))

\* C24: a finished call of suggest_child_assets has one of three outcomes:
\* the success response carrying the parsed value, whatever its shape, when
\* the stripped text parses as JSON; an HTTPException 502 when the generation
\* call (the call or the read of its text) raised; an HTTPException 500 when
\* the text does not parse.
C24_SuggestOutcomes ==
    (s_pc = "done")
        => /\ SuggestionParses
                => s_result = [kind |-> "success",
                               body |-> [success |-> TRUE,
                                         suggestions |-> json_loads(clean_content(s_response.text))]]
           /\ (s_response.k = "raise")
                => (s_result.kind = "error" /\ s_result.exc.type = "HTTPException"
                    /\ s_result.exc.status = 502)
           /\ (s_response.k = "ok" /\ ~SuggestionParses)
                => (s_result.kind = "error" /\ s_result.exc.type = "HTTPException"
                    /\ s_result.exc.status = 500)

\* create_site_admin made the call `op`
Called(op) == \E n \in 1..Len(a_calls) : a_calls[n].op = op

\* create_site_admin made the call `op` and it did `did`
CalledWith(op, did) == \E n \in 1..Len(a_calls) : a_calls[n] = Call(op, did)

\* The caller's row was read and says site_admin
CallerVerified ==
    \E n \in 1..Len(a_calls) :
        /\ a_calls[n].op = "users.select(site_admin)"
        /\ a_calls[n].did.k = "data"
        /\ a_calls[n].did.data # JNull
        /\ a_calls[n].did.data.site_admin = JBool(TRUE)

\* C25: create_site_admin promotes a user or creates an auth user only after
\* it has read the caller's row and found site_admin set.
C25_OnlyAdminsCreateAdmins ==
    (Called("users.update(promote)") \/ Called("auth.admin.create_user"))
        => CallerVerified

\* C27: the success result for a newly created user is returned only when the
\* users-table update and the invitation call both succeeded; and when the
\* email belongs to a site admin the call ends in a 400 with no update, no
\* user creation and no invitation made.
C27_CreatedMeansFlaggedAndInvited ==
    (a_pc = "done")
        => /\ (a_result.kind = "success" /\ ~a_result.body.promoted)
                => /\ CalledWith("users.update(site_admin)", Done)
                   /\ CalledWith("auth.admin.invite_user_by_email", Done)
           /\ CalledWith("users.select(email)", Rows(<<UserRow(JBool(TRUE))>>))
                => /\ a_result = AdminError(400, "User is already a site admin")
                   /\ ~Called("users.update(promote)")
                   /\ ~Called("users.update(site_admin)")
                   /\ ~Called("auth.admin.create_user")
                   /\ ~Called("auth.admin.invite_user_by_email")

\* The site lookup of send_invitation_email returned, and without data
NoSiteData ==
    /\ site_response # JNull
    /\ site_response.k = "data"
    /\ (site_response.data = JNull \/ ~NonEmpty(site_response.data))

\* C26: when the site lookup returns no data the caller receives the 404
\* "Site not found", and a call in which an exception was raised never ends
\* in the success result.
C26_NoSiteIs404 ==
    (i_pc = "done")
        => /\ NoSiteData => i_result = [kind |-> "error",
                                        exc |-> HTTPException(404, Message("Site not found"))]
           /\ (i_caught # NoExc) => i_result.kind = "error"

\* calculated_hours of an invocation that ran alone on this request and met
\* these lookups
AloneHours(data, seen) ==
    IF ~(Truthy(data.parent_asset_id) /\ Truthy(data.child_asset_id)) \/ Len(seen) = 0
    THEN data.hours
    ELSE LET run == EstimatorRun("ok", seen[1].answer,
                                 IF Len(seen) > 1 THEN seen[2].answer ELSE Raises)
         IN IF run.hours.t = "null" THEN data.hours ELSE run.hours

\* How the validator leaves a call on this candidate: returned, or raised
\* with this exception
RECURSIVE FirstRaising(_, _)
FirstRaising(items, n) ==
    IF n > Len(items) THEN 0
    ELSE IF TaskRaises(items[n]) THEN n ELSE FirstRaising(items, n + 1)

AloneValidation(plan) ==
    IF ~IsDict(plan) \/ ~HasKey(plan, "maintenance_plan")
    THEN [v_pc |-> "raised",
          v_exc |-> HTTPException(422,
                     Message("Output must be a JSON object with key 'maintenance_plan'."))]
    ELSE LET items == plan.m["maintenance_plan"] IN
    IF ~IsList(items) \/ Len(items.items) = 0
    THEN [v_pc |-> "raised",
          v_exc |-> HTTPException(422,
                     Message("'maintenance_plan' must be a non-empty array of task objects."))]
    ELSE IF FirstRaising(items.items, 1) # 0
    THEN [v_pc |-> "raised", v_exc |-> OverflowError]
    ELSE IF Len(AllTaskErrors(items.items, 1)) > 0
    THEN [v_pc |-> "raised",
          v_exc |-> HTTPException(422, ValidationErrors(AllTaskErrors(items.items, 1)))]
    ELSE [v_pc |-> "returned", v_exc |-> NoExc]

\* What the caller of an invocation that ran alone receives, given what the
\* generation collaborator did
AloneResponse(outcome) ==
    IF outcome.k = "raise" \/ ~json_parses(clean_output(outcome.text))
    THEN Response500
    ELSE LET plan == json_loads(clean_output(outcome.text))
         IN IF AloneValidation(plan).v_pc = "returned"
            THEN [kind |-> "success", body |-> SuccessBody(plan)]
            ELSE Response500

\* The locals of an invocation are what it would hold had it run alone on
\* its request with the answers it met
AsAlone(frame) ==
    /\ frame.pc # "start" => frame.calculated_hours = AloneHours(frame.input, frame.lookups)
    /\ frame.prompt # JNull
          => frame.prompt = generate_prompt(PMPlanInput(frame.input,
                                              AloneHours(frame.input, frame.lookups)))
    /\ frame.v_pc \in {"returned", "raised"}
          => LET alone == AloneValidation(json_loads(clean_output(frame.gen.text)))
             IN frame.v_pc = alone.v_pc /\ frame.v_exc = alone.v_exc
    /\ frame.pc = "done" => frame.response = AloneResponse(frame.gen)

\* C23: under any interleaving of two invocations of generate_ai_plan, the
\* computed hours, the rendered prompt, the validation result and the
\* response of each are those it would produce alone on its own request
\* with the same collaborator answers.
C23_NoInterference == AsAlone(Locals) /\ AsAlone(suspended)

\* Both invocations are under way on different requests, one of them with an
\* estimate and waiting to compile its prompt, the other one in its validator
C23_Witness ==
    /\ pc = "prompt" /\ suspended.pc = "validate"
    /\ input # suspended.input
    /\ calculated_hours = JStr(<<"5","0">>)
    /\ suspended.v_pc = "loop"

====
